---- MODULE Spec2Model ----
(***************************************************************************)
(* Model of the GameEngine class of src/run_sim.mjs (lines 1244-1813), the *)
(* simulation core of the "pulse" reflex game.                             *)
(*                                                                         *)
(* Number representation.  The engine computes with IEEE doubles; the      *)
(* model computes with integers in fixed point:                            *)
(*   - times (time, dt, hitTime, spawnTime, tempo, windows)  whole ms      *)
(*   - momentum, pow() values, difficulty scale              1e-6 (Unit)   *)
(*   - multiplier and multiplierGain                         1/4 (MulUnit) *)
(*   - obstacle position, screenShake, distance              1e-3          *)
(*   - flashIntensity                                        1e-4          *)
(* Math.pow(r, m) is evaluated from its values at m = 0, 0.1, ..., 1 with  *)
(* linear interpolation in between (PowTable / Pow).                       *)
(* A nullable JS value is a sequence: << >> is null, <<v>> is the value v. *)
(***************************************************************************)
EXTENDS Integers, Sequences, FiniteSets, TLC

VARIABLES
    config,     \* this.config, fixed at construction
    state,      \* this.state
    lastCall,   \* the method called most recently on the engine
    ret,        \* what that call returned (tap: << >> = null, <<result>>)
    emitted,    \* the events that call emitted through _emit, in order
    listeners,  \* this._listeners: per event name, the handlers registered
    invoked,    \* the handlers that call ran, in order, with what they were given
    twin        \* a second engine instance constructed with the same config

vars == <<config, state, lastCall, ret, emitted, listeners, invoked, twin>>

-----------------------------------------------------------------------------
(* Units of the fixed-point representation *)

Unit == 1000000
MulUnit == 4
Infinity == 999999999

Max(a, b) == IF a >= b THEN a ELSE b
Min(a, b) == IF a <= b THEN a ELSE b
Abs(a) == IF a < 0 THEN -a ELSE a

\* Math.round(n / d) for d > 0: the nearest integer, halves towards +infinity
RoundDiv(n, d) == (2 * n + d) \div (2 * d)

-----------------------------------------------------------------------------
(* HIT_QUALITY and DEFAULT_CONFIG *)

HIT_QUALITY ==
    [PERFECT |-> "perfect", GREAT |-> "great", GOOD |-> "good",
     OK |-> "ok", MISS |-> "miss"]

DEFAULT_CONFIG ==
    [perfectWindow |-> 50, greatWindow |-> 100, goodWindow |-> 150,
     earlyBias |-> 0,
     maxLateMs |-> 80,
     hitstop |-> [perfect |-> 50, great |-> 20, good |-> 0],
     momentumBoost |-> [perfect |-> 60000, great |-> 20000, good |-> -20000],
     missMomentumPenalty |-> -120000,
     momentumDecayPerSec |-> 12000,
     scoreBase |-> [perfect |-> 300, great |-> 100, good |-> 20],
     multiplierGain |-> [perfect |-> 4, great |-> 1, good |-> -2],
     maxMultiplier |-> 128,
     baseTempo |-> 720, minTempo |-> 330,
     tempoRatio |-> "0.55",
     tempoVariation |-> 40000,
     windowShrinkStart |-> 45000,
     windowShrinkRate |-> 4000,
     graceObstacles |-> 6, startingLives |-> 5, maxLives |-> 5,
     baseApproachTime |-> 1600, minApproachTime |-> 700,
     approachRatio |-> "0.6",
     baseSpeed |-> 240, maxSpeed |-> 950,
     comboLifeReward |-> 50,
     startingMomentum |-> 50000]

-----------------------------------------------------------------------------
(* Math.pow(ratio, m) for m in [0,1] *)

\* ratio^(k/10) for k = 0..10, in Unit; "speed" is maxSpeed/baseSpeed = 950/240
PowTable ==
    [r \in {"0.55", "0.6", "speed"} |->
        CASE r = "0.55" ->
               <<1000000, 941968, 887304, 835812, 787309, 741620,
                 698582, 658042, 619855, 583884, 550000>>
          [] r = "0.6" ->
               <<1000000, 950200, 902880, 857917, 815193, 774597,
                 736022, 699368, 664540, 631446, 600000>>
          [] r = "speed" ->
               <<1000000, 1147496, 1316747, 1510963, 1733824, 1989556,
                 2283008, 2619743, 3006145, 3449540, 3958333>>]

Pow(r, m) ==
    LET tab == PowTable[r]
        i == m \div 100000
        f == (m % 100000) \div 100
    IN  IF i >= 10 THEN tab[11]
        ELSE tab[i + 1] + ((tab[i + 2] - tab[i + 1]) * f) \div 1000

-----------------------------------------------------------------------------
(* reset(): the initial value of this.state *)

ResetState(c) ==
    [phase |-> "ready",
     time |-> 0,
     tick |-> 0,
     momentum |-> c.startingMomentum,
     lives |-> c.startingLives,
     score |-> 0,
     multiplier |-> MulUnit,
     combo |-> 0,
     maxCombo |-> 0,
     distance |-> 0,
     obstacles |-> << >>,
     obstacleIdCounter |-> 0,
     obstaclesSpawned |-> 0,
     nextObstacleTime |-> 0,
     tempo |-> c.baseTempo,
     lastBeatTime |-> 0,
     speed |-> c.baseSpeed,
     hitstopRemaining |-> 0,
     lastHit |-> << >>,
     screenShake |-> 0,
     flashIntensity |-> 0,
     flashColor |-> "null",
     stats |-> [perfect |-> 0, great |-> 0, good |-> 0, ok |-> 0, miss |-> 0,
                totalPrecisionMs |-> 0, hitCount |-> 0, survivalTime |-> 0,
                peakMomentum |-> c.startingMomentum, peakMultiplier |-> MulUnit,
                peakCombo |-> 0, livesGained |-> 0],
     hitLog |-> << >>]

-----------------------------------------------------------------------------
(* Derived values *)

getCurrentTempo(s, c) == (c.baseTempo * Pow(c.tempoRatio, s.momentum)) \div Unit

getCurrentSpeed(s, c) == (c.baseSpeed * Pow("speed", s.momentum)) \div Unit

getCurrentApproachTime(s, c) ==
    (c.baseApproachTime * Pow(c.approachRatio, s.momentum)) \div Unit

\* mutant: the floor of the scale is forgotten
getDifficultyScaleNoFloor(s, c) ==
    LET elapsed == s.time - c.windowShrinkStart
    IN  IF elapsed <= 0 THEN Unit
        ELSE Unit - (c.windowShrinkRate * elapsed) \div 1000

\* in Unit; the floor 0.20 is 200000
getDifficultyScale(s, c) ==
    LET elapsed == s.time - c.windowShrinkStart
    IN  IF elapsed <= 0 THEN Unit
        ELSE Max(200000, Unit - (c.windowShrinkRate * elapsed) \div 1000)

-----------------------------------------------------------------------------
(* _spawnObstacle().  r1, r2 are the two Math.random() draws, in 1/1000.   *)
(* The first draw (variation) is computed and never used by the code.      *)

Variation(c, r) == Unit + ((2 * r - 1000) * c.tempoVariation) \div 1000

\* mutant: protection lasts until graceObstacles obstacles have been missed
NewObstacleGraceByMisses(s, c) ==
    LET hitTime == s.nextObstacleTime
        approachTime == getCurrentApproachTime(s, c)
        spawnTime == hitTime - approachTime
    IN  [id |-> s.obstacleIdCounter,
         spawnTime |-> Max(s.time, spawnTime),
         hitTime |-> hitTime,
         approachTime |-> approachTime,
         position |-> 1000,
         hit |-> FALSE,
         missed |-> FALSE,
         quality |-> "null",
         hitDiff |-> << >>,
         early |-> FALSE,
         graceProtected |-> s.stats.miss < c.graceObstacles]

\* mutant: the id is the place in the collection
NewObstacleIdByPlace(s, c) ==
    LET hitTime == s.nextObstacleTime
        approachTime == getCurrentApproachTime(s, c)
        spawnTime == hitTime - approachTime
    IN  [id |-> Len(s.obstacles),
         spawnTime |-> Max(s.time, spawnTime),
         hitTime |-> hitTime,
         approachTime |-> approachTime,
         position |-> 1000,
         hit |-> FALSE,
         missed |-> FALSE,
         quality |-> "null",
         hitDiff |-> << >>,
         early |-> FALSE,
         graceProtected |-> s.obstaclesSpawned < c.graceObstacles]

\* mutant: one more obstacle is protected than graceObstacles says
NewObstacleGraceInclusive(s, c) ==
    LET hitTime == s.nextObstacleTime
        approachTime == getCurrentApproachTime(s, c)
        spawnTime == hitTime - approachTime
    IN  [id |-> s.obstacleIdCounter,
         spawnTime |-> Max(s.time, spawnTime),
         hitTime |-> hitTime,
         approachTime |-> approachTime,
         position |-> 1000,
         hit |-> FALSE,
         missed |-> FALSE,
         quality |-> "null",
         hitDiff |-> << >>,
         early |-> FALSE,
         graceProtected |-> s.obstaclesSpawned <= c.graceObstacles]

NewObstacle(s, c) ==
    LET hitTime == s.nextObstacleTime
        approachTime == getCurrentApproachTime(s, c)
        spawnTime == hitTime - approachTime
    IN  [id |-> s.obstacleIdCounter,
         spawnTime |-> Max(s.time, spawnTime),
         hitTime |-> hitTime,
         approachTime |-> approachTime,
         position |-> 1000,
         hit |-> FALSE,
         missed |-> FALSE,
         quality |-> "null",
         hitDiff |-> << >>,
         early |-> FALSE,
         graceProtected |-> s.obstaclesSpawned < c.graceObstacles]

\* mutant: the next obstacle is scheduled one approach time after this one
SpawnObstacleByApproach(s, c, r1, r2) ==
    LET hitTime == s.nextObstacleTime
        nextVariation == Variation(c, r2)
    IN  [s EXCEPT
           !.obstacles = Append(s.obstacles, NewObstacle(s, c)),
           !.obstacleIdCounter = s.obstacleIdCounter + 1,
           !.obstaclesSpawned = s.obstaclesSpawned + 1,
           !.nextObstacleTime =
               hitTime + (getCurrentApproachTime(s, c) * nextVariation) \div Unit]

SpawnObstacle(s, c, r1, r2) ==
    LET tempo == getCurrentTempo(s, c)
        variation == Variation(c, r1)
        hitTime == s.nextObstacleTime
        nextTempo == getCurrentTempo(s, c)
        nextVariation == Variation(c, r2)
    IN  [s EXCEPT
           !.obstacles = Append(s.obstacles, NewObstacle(s, c)),
           !.obstacleIdCounter = s.obstacleIdCounter + 1,
           !.obstaclesSpawned = s.obstaclesSpawned + 1,
           !.nextObstacleTime = hitTime + (nextTempo * nextVariation) \div Unit]

-----------------------------------------------------------------------------
(* _applyHit(quality, precisionMs): the new state and the events emitted   *)

Event(name, data) == [name |-> name, data |-> data]

HitShake(quality) ==
    CASE quality = "perfect" -> 12000
      [] quality = "great" -> 5000
      [] quality = "good" -> 2000

HitFlash(quality) ==
    CASE quality = "perfect" -> 10000
      [] quality = "great" -> 6000
      [] quality = "good" -> 3000

HitColor(quality) ==
    CASE quality = "perfect" -> "white"
      [] quality = "great" -> "cyan"
      [] quality = "good" -> "blue"

\* mutant: the lower clamp Math.max(0, ...) is forgotten
ClampMomentumNoFloor(m) == Min(Unit, m)

ClampMomentum(m) == Max(0, Min(Unit, m))

ClampMultiplier(c, m) == Max(MulUnit, Min(c.maxMultiplier, m))

\* mutant: the score is taken with the multiplier already raised by the hit
HitScoreAfterGain(c, quality, multiplier) ==
    RoundDiv(c.scoreBase[quality]
                * ClampMultiplier(c, multiplier + c.multiplierGain[quality]),
             MulUnit)

HitScore(c, quality, multiplier) ==
    RoundDiv(c.scoreBase[quality] * multiplier, MulUnit)

\* mutant: every combo from comboLifeReward on is a milestone
MilestoneFromReward(c, builds, combo) ==
    builds /\ c.comboLifeReward > 0 /\ combo >= c.comboLifeReward

\* the combo just reached is a positive multiple of comboLifeReward
Milestone(c, builds, combo) ==
    builds /\ c.comboLifeReward > 0 /\ combo > 0
           /\ combo % c.comboLifeReward = 0

ApplyHit(s, c, quality, precisionMs) ==
    LET momentum == ClampMomentum(s.momentum + c.momentumBoost[quality])
        score == s.score + HitScore(c, quality, s.multiplier)
        multiplier == ClampMultiplier(c, s.multiplier + c.multiplierGain[quality])
        builds == quality = HIT_QUALITY.PERFECT \/ quality = HIT_QUALITY.GREAT
        combo == IF builds THEN s.combo + 1 ELSE 0
        maxCombo == IF builds /\ combo > s.maxCombo THEN combo ELSE s.maxCombo
        milestone == Milestone(c, builds, combo)
        gain == milestone /\ s.lives < c.maxLives
        lives == IF gain THEN s.lives + 1 ELSE s.lives
        stopMs == c.hitstop[quality]
        entry == [time |-> s.time, quality |-> quality,
                  precisionMs |-> precisionMs, momentum |-> momentum,
                  multiplier |-> multiplier, combo |-> combo, score |-> score]
    IN  [state |->
           [s EXCEPT
              !.momentum = momentum,
              !.score = score,
              !.multiplier = multiplier,
              !.combo = combo,
              !.maxCombo = maxCombo,
              !.lives = lives,
              !.hitstopRemaining = IF stopMs > 0 THEN stopMs ELSE @,
              !.screenShake = HitShake(quality),
              !.flashIntensity = HitFlash(quality),
              !.flashColor = HitColor(quality),
              !.stats = [@ EXCEPT
                           ![quality] = @ + 1,
                           !.totalPrecisionMs = @ + precisionMs,
                           !.hitCount = @ + 1,
                           !.peakCombo = IF builds /\ combo > s.maxCombo
                                         THEN maxCombo ELSE @,
                           !.livesGained = IF gain THEN @ + 1 ELSE @],
              !.hitLog = Append(@, entry)],
         emitted |->
           (IF milestone THEN <<Event("comboMilestone", [combo |-> combo])>>
                         ELSE << >>)
           \o (IF gain THEN <<Event("lifeGain", [lives |-> lives])>> ELSE << >>)]

-----------------------------------------------------------------------------
(* _applyMiss(obstacle): the new state and the events emitted.  The        *)
(* obstacle is passed as the record the loop of update() is looking at.    *)

MissEntry(s, momentum) ==
    [time |-> s.time, quality |-> HIT_QUALITY.MISS, precisionMs |-> Infinity,
     momentum |-> momentum, multiplier |-> MulUnit, combo |-> 0,
     score |-> s.score]

MissLastHit(obstacle) ==
    <<[quality |-> HIT_QUALITY.MISS, precisionMs |-> Infinity,
       obstacle |-> obstacle.id]>>

GraceMissMomentum(m) == Max(100000, m - 40000)

\* mutant: the full penalty keeps the floor of the grace branch
FullMissMomentumGraceFloor(c, m) == Max(100000, m + c.missMomentumPenalty)

FullMissMomentum(c, m) == Max(0, m + c.missMomentumPenalty)

\* mutant: a grace-protected miss is counted but not logged
ApplyGraceMissUnlogged(s, c, obstacle) ==
    LET momentum == GraceMissMomentum(s.momentum)
    IN  [state |->
           [s EXCEPT
              !.momentum = momentum,
              !.combo = 0,
              !.multiplier = MulUnit,
              !.lastHit = MissLastHit(obstacle),
              !.flashIntensity = 3000,
              !.flashColor = "red",
              !.stats = [@ EXCEPT !.miss = @ + 1]],
         emitted |->
           <<Event("miss", [obstacle |-> obstacle.id, graceProtected |-> TRUE])>>]

\* mutant: a grace-protected miss leaves the combo standing
ApplyGraceMissKeepsCombo(s, c, obstacle) ==
    LET momentum == GraceMissMomentum(s.momentum)
    IN  [state |->
           [s EXCEPT
              !.momentum = momentum,
              !.multiplier = MulUnit,
              !.lastHit = MissLastHit(obstacle),
              !.flashIntensity = 3000,
              !.flashColor = "red",
              !.stats = [@ EXCEPT !.miss = @ + 1],
              !.hitLog = Append(@, MissEntry(s, momentum))],
         emitted |->
           <<Event("miss", [obstacle |-> obstacle.id, graceProtected |-> TRUE])>>]

ApplyGraceMiss(s, c, obstacle) ==
    LET momentum == GraceMissMomentum(s.momentum)
    IN  [state |->
           [s EXCEPT
              !.momentum = momentum,
              !.combo = 0,
              !.multiplier = MulUnit,
              !.lastHit = MissLastHit(obstacle),
              !.flashIntensity = 3000,
              !.flashColor = "red",
              !.stats = [@ EXCEPT !.miss = @ + 1],
              !.hitLog = Append(@, MissEntry(s, momentum))],
         emitted |->
           <<Event("miss", [obstacle |-> obstacle.id, graceProtected |-> TRUE])>>]

\* mutant: the run ends only when lives has fallen below 0
ApplyFullMissDiesLate(s, c, obstacle) ==
    LET momentum == FullMissMomentum(c, s.momentum)
        lives == s.lives - 1
    IN  [state |->
           [s EXCEPT
              !.momentum = momentum,
              !.combo = 0,
              !.multiplier = MulUnit,
              !.lives = lives,
              !.lastHit = MissLastHit(obstacle),
              !.screenShake = 15000,
              !.flashIntensity = 8000,
              !.flashColor = "red",
              !.stats = [@ EXCEPT !.miss = @ + 1],
              !.hitLog = Append(@, MissEntry(s, momentum)),
              !.phase = IF lives < 0 THEN "dead" ELSE @],
         emitted |->
           <<Event("miss", [obstacle |-> obstacle.id, graceProtected |-> FALSE])>>
           \o (IF lives < 0 THEN <<Event("death", [none |-> TRUE])>> ELSE << >>)]

ApplyFullMiss(s, c, obstacle) ==
    LET momentum == FullMissMomentum(c, s.momentum)
        lives == s.lives - 1
    IN  [state |->
           [s EXCEPT
              !.momentum = momentum,
              !.combo = 0,
              !.multiplier = MulUnit,
              !.lives = lives,
              !.lastHit = MissLastHit(obstacle),
              !.screenShake = 15000,
              !.flashIntensity = 8000,
              !.flashColor = "red",
              !.stats = [@ EXCEPT !.miss = @ + 1],
              !.hitLog = Append(@, MissEntry(s, momentum)),
              !.phase = IF lives <= 0 THEN "dead" ELSE @],
         emitted |->
           <<Event("miss", [obstacle |-> obstacle.id, graceProtected |-> FALSE])>>
           \o (IF lives <= 0 THEN <<Event("death", [none |-> TRUE])>> ELSE << >>)]

\* mutant: the grace branch is forgotten
ApplyMissAlwaysFull(s, c, obstacle) == ApplyFullMiss(s, c, obstacle)

ApplyMiss(s, c, obstacle) ==
    IF obstacle.graceProtected THEN ApplyGraceMiss(s, c, obstacle)
    ELSE ApplyFullMiss(s, c, obstacle)

-----------------------------------------------------------------------------
(* tap(atTime): the new state, the events emitted and the value returned   *)

Terminal(o) == o.hit \/ o.missed

\* the loop of tap(): index of the closest non-terminal obstacle, 0 for none
\* mutant: the first non-terminal obstacle is taken, whatever its distance
FindBestFirst(obstacles, time, i, best, bestDiff) ==
    IF \E k \in DOMAIN obstacles : ~Terminal(obstacles[k])
    THEN CHOOSE k \in DOMAIN obstacles :
            /\ ~Terminal(obstacles[k])
            /\ \A j \in DOMAIN obstacles : ~Terminal(obstacles[j]) => k <= j
    ELSE 0

RECURSIVE FindBest(_, _, _, _, _)
FindBest(obstacles, time, i, best, bestDiff) ==
    IF i > Len(obstacles) THEN best
    ELSE LET obs == obstacles[i]
             diff == Abs(time - obs.hitTime)
         IN  IF Terminal(obs) THEN FindBest(obstacles, time, i + 1, best, bestDiff)
             ELSE IF diff < bestDiff
                  THEN FindBest(obstacles, time, i + 1, i, diff)
                  ELSE FindBest(obstacles, time, i + 1, best, bestDiff)

\* window * scale + bias, compared with the whole-ms absDiff
Window(w, scale, bias) == (w * scale) \div Unit + bias

\* mutant: the hard late cutoff is forgotten
TooLateNever(c, isEarly, rawDiff) == FALSE

TooLate(c, isEarly, rawDiff) == ~isEarly /\ rawDiff > c.maxLateMs

\* mutant: the windows are not scaled by the difficulty scale
ClassifyUnscaled(s, c, rawDiff) ==
    LET absDiff == Abs(rawDiff)
        bias == IF rawDiff < 0 THEN c.earlyBias ELSE 0
    IN  IF absDiff <= c.perfectWindow + bias THEN HIT_QUALITY.PERFECT
        ELSE IF absDiff <= c.greatWindow + bias THEN HIT_QUALITY.GREAT
        ELSE IF absDiff <= c.goodWindow + bias THEN HIT_QUALITY.GOOD
        ELSE "null"

\* "null" when the tap is outside all windows
Classify(s, c, rawDiff) ==
    LET absDiff == Abs(rawDiff)
        isEarly == rawDiff < 0
        scale == getDifficultyScale(s, c)
        bias == IF isEarly THEN c.earlyBias ELSE 0
        pW == Window(c.perfectWindow, scale, bias)
        gW == Window(c.greatWindow, scale, bias)
        goW == Window(c.goodWindow, scale, bias)
    IN  IF absDiff <= pW THEN HIT_QUALITY.PERFECT
        ELSE IF absDiff <= gW THEN HIT_QUALITY.GREAT
        ELSE IF absDiff <= goW THEN HIT_QUALITY.GOOD
        ELSE "null"

NoResult(s) == [state |-> s, emitted |-> << >>, ret |-> << >>]

\* mutant: the hit event is emitted before _applyHit emits its own
TapHitEmitsFirst(s, c, best, quality, rawDiff) ==
    LET absDiff == Abs(rawDiff)
        isEarly == rawDiff < 0
        marked == [s EXCEPT !.obstacles[best] =
                      [@ EXCEPT !.hit = TRUE, !.quality = quality,
                                !.hitDiff = <<rawDiff>>, !.early = isEarly]]
        applied == ApplyHit(marked, c, quality, absDiff)
        result == [quality |-> quality, precisionMs |-> absDiff,
                   early |-> isEarly, obstacle |-> s.obstacles[best].id]
    IN  [state |-> [applied.state EXCEPT !.lastHit = <<result>>],
         emitted |-> <<Event("hit", result)>> \o applied.emitted,
         ret |-> <<result>>]

\* mutant: a hit moves the clock to the instant of the tap
TapHitSyncsClock(s, c, best, quality, rawDiff) ==
    LET absDiff == Abs(rawDiff)
        isEarly == rawDiff < 0
        marked == [s EXCEPT !.obstacles[best] =
                      [@ EXCEPT !.hit = TRUE, !.quality = quality,
                                !.hitDiff = <<rawDiff>>, !.early = isEarly]]
        applied == ApplyHit(marked, c, quality, absDiff)
        result == [quality |-> quality, precisionMs |-> absDiff,
                   early |-> isEarly, obstacle |-> s.obstacles[best].id]
    IN  [state |-> [applied.state EXCEPT
                       !.lastHit = <<result>>,
                       !.time = s.obstacles[best].hitTime + rawDiff],
         emitted |-> Append(applied.emitted, Event("hit", result)),
         ret |-> <<result>>]

TapHit(s, c, best, quality, rawDiff) ==
    LET absDiff == Abs(rawDiff)
        isEarly == rawDiff < 0
        marked == [s EXCEPT !.obstacles[best] =
                      [@ EXCEPT !.hit = TRUE, !.quality = quality,
                                !.hitDiff = <<rawDiff>>, !.early = isEarly]]
        applied == ApplyHit(marked, c, quality, absDiff)
        result == [quality |-> quality, precisionMs |-> absDiff,
                   early |-> isEarly, obstacle |-> s.obstacles[best].id]
    IN  [state |-> [applied.state EXCEPT !.lastHit = <<result>>],
         emitted |-> Append(applied.emitted, Event("hit", result)),
         ret |-> <<result>>]

\* mutant: a tap outside all windows marks its obstacle missed
TapRunningMarksMiss(s, c, time) ==
    LET best == FindBest(s.obstacles, time, 1, 0, Infinity)
    IN  IF best = 0 THEN NoResult(s)
        ELSE LET rawDiff == time - s.obstacles[best].hitTime
                 quality == Classify(s, c, rawDiff)
             IN  IF TooLate(c, rawDiff < 0, rawDiff) THEN NoResult(s)
                 ELSE IF quality = "null"
                      THEN NoResult([s EXCEPT !.obstacles[best].missed = TRUE])
                 ELSE TapHit(s, c, best, quality, rawDiff)

TapRunning(s, c, time) ==
    LET best == FindBest(s.obstacles, time, 1, 0, Infinity)
    IN  IF best = 0 THEN NoResult(s)
        ELSE LET rawDiff == time - s.obstacles[best].hitTime
                 quality == Classify(s, c, rawDiff)
             IN  IF TooLate(c, rawDiff < 0, rawDiff) THEN NoResult(s)
                 ELSE IF quality = "null" THEN NoResult(s)
                 ELSE TapHit(s, c, best, quality, rawDiff)

\* mutant: the phase check of tap() is forgotten
TapCallAnyPhase(s, c, atTime) ==
    TapRunning(s, c, IF atTime # << >> THEN atTime[1] ELSE s.time)

\* atTime is << >> when the argument is omitted
TapCall(s, c, atTime) ==
    IF s.phase # "running" THEN NoResult(s)
    ELSE TapRunning(s, c, IF atTime # << >> THEN atTime[1] ELSE s.time)

-----------------------------------------------------------------------------
(* update(dt) *)

DecayShake(x) == LET y == (x * 88) \div 100 IN IF y < 500 THEN 0 ELSE y

DecayFlash(x) == LET y == (x * 92) \div 100 IN IF y < 100 THEN 0 ELSE y

DecayVisuals(s) ==
    [s EXCEPT !.screenShake = DecayShake(@), !.flashIntensity = DecayFlash(@)]

\* mutant: the hitstop branch lets the clock run
UpdateFrozenAdvances(s, dt) ==
    DecayVisuals([s EXCEPT !.hitstopRemaining = Max(0, @ - dt),
                           !.time = @ + dt])

\* the hitstop branch: game time is frozen
UpdateFrozen(s, dt) ==
    DecayVisuals([s EXCEPT !.hitstopRemaining = Max(0, @ - dt)])

DecayMomentum(c, m, dt) == Max(0, m - (c.momentumDecayPerSec * dt) \div 1000)

\* clock, tempo, beat tracking, speed, distance and momentum decay
Advance(s, c, dt) ==
    LET time == s.time + dt
        tempo == getCurrentTempo(s, c)
        beat == time - s.lastBeatTime > tempo
        speed == getCurrentSpeed(s, c)
    IN  [state |->
           [s EXCEPT
              !.tick = @ + 1,
              !.time = time,
              !.stats = [@ EXCEPT !.survivalTime = time],
              !.tempo = tempo,
              !.lastBeatTime = IF beat THEN time ELSE @,
              !.speed = speed,
              !.distance = @ + speed * dt,
              !.momentum = DecayMomentum(c, s.momentum, dt)],
         emitted |->
           IF beat THEN <<Event("beat", [momentum |-> s.momentum])>> ELSE << >>]

Position(s, obs) ==
    Max(-200, 1000 - ((s.time - obs.spawnTime) * 1000) \div (obs.hitTime - obs.spawnTime))

PastCutoff(s, c, obs) == s.time > obs.hitTime + c.maxLateMs

\* mutant: the loop does not skip obstacles that are already terminal
LoopStepNoSkip(s, c, i) ==
    LET obs == s.obstacles[i]
        moved == [s EXCEPT !.obstacles[i].position = Position(s, obs)]
        missed == [moved EXCEPT !.obstacles[i].missed = TRUE]
    IN  IF obs.hitTime - obs.spawnTime <= 0 THEN [state |-> s, emitted |-> << >>]
        ELSE IF PastCutoff(s, c, obs) THEN ApplyMiss(missed, c, missed.obstacles[i])
        ELSE [state |-> moved, emitted |-> << >>]

\* one iteration of the obstacle loop, on the obstacle at index i
LoopStep(s, c, i) ==
    LET obs == s.obstacles[i]
        moved == [s EXCEPT !.obstacles[i].position = Position(s, obs)]
        missed == [moved EXCEPT !.obstacles[i].missed = TRUE]
    IN  IF Terminal(obs) THEN [state |-> s, emitted |-> << >>]
        ELSE IF obs.hitTime - obs.spawnTime <= 0 THEN [state |-> s, emitted |-> << >>]
        ELSE IF PastCutoff(s, c, obs) THEN ApplyMiss(missed, c, missed.obstacles[i])
        ELSE [state |-> moved, emitted |-> << >>]

RECURSIVE ObstacleLoop(_, _, _, _)
ObstacleLoop(s, c, i, ev) ==
    IF i > Len(s.obstacles) THEN [state |-> s, emitted |-> ev]
    ELSE LET step == LoopStep(s, c, i)
         IN  ObstacleLoop(step.state, c, i + 1, ev \o step.emitted)

\* mutant: an obstacle is created only once its hit time has come
SpawnDueAtHitTime(s, c) == s.time >= s.nextObstacleTime

SpawnDue(s, c) == s.time >= s.nextObstacleTime - getCurrentApproachTime(s, c)

\* mutant: terminal obstacles are kept for a whole second
KeepForSecond(s, o) ==
    IF Terminal(o)
    THEN s.time - (IF o.hitTime # 0 THEN o.hitTime ELSE o.spawnTime) < 1000
    ELSE TRUE

Keep(s, o) ==
    IF Terminal(o)
    THEN s.time - (IF o.hitTime # 0 THEN o.hitTime ELSE o.spawnTime) < 800
    ELSE TRUE

Cleanup(s) ==
    [s EXCEPT !.obstacles = SelectSeq(s.obstacles, LAMBDA o : Keep(s, o))]

TrackPeaks(s) ==
    [s EXCEPT !.stats =
        [@ EXCEPT
           !.peakMomentum = IF s.momentum > @ THEN s.momentum ELSE @,
           !.peakMultiplier = IF s.multiplier > @ THEN s.multiplier ELSE @]]

UpdateRunning(s, c, dt, r1, r2) ==
    LET adv == Advance(s, c, dt)
        looped == ObstacleLoop(adv.state, c, 1, adv.emitted)
        spawned == IF SpawnDue(looped.state, c)
                   THEN SpawnObstacle(looped.state, c, r1, r2)
                   ELSE looped.state
    IN  [state |-> TrackPeaks(DecayVisuals(Cleanup(spawned))),
         emitted |-> looped.emitted]

UpdateCall(s, c, dt, r1, r2) ==
    IF s.phase # "running" THEN [state |-> s, emitted |-> << >>]
    ELSE IF s.hitstopRemaining > 0
         THEN [state |-> UpdateFrozen(s, dt), emitted |-> << >>]
    ELSE UpdateRunning(s, c, dt, r1, r2)

\* mutant: start() forgets the fixed initial delay of the first obstacle
StartCallKeepsSchedule(s, c, r1, r2) ==
    IF s.phase # "ready" THEN s
    ELSE SpawnObstacle([s EXCEPT !.phase = "running"], c, r1, r2)

\* mutant: the phase check of start() is forgotten
StartCallAnyPhase(s, c, r1, r2) ==
    SpawnObstacle([s EXCEPT !.phase = "running", !.nextObstacleTime = 1000],
                  c, r1, r2)

\* start()
StartCall(s, c, r1, r2) ==
    IF s.phase # "ready" THEN s
    ELSE SpawnObstacle([s EXCEPT !.phase = "running", !.nextObstacleTime = 1000],
                       c, r1, r2)

-----------------------------------------------------------------------------
(* The event bus: on(event, fn) and _emit(event, data).  A handler is       *)
(* known by its name; this._listeners[event] || [] is the empty sequence   *)
(* for an event name nothing was registered for.                           *)

EventNames == {"hit", "miss", "death", "beat", "comboMilestone", "lifeGain"}

\* this._listeners = {} of the constructor
NoListeners == [e \in EventNames |-> << >>]

on(ls, event, fn) == [ls EXCEPT ![event] = Append(@, fn)]

\* mutant: _emit runs each distinct handler once, however often registered
EmitDistinct(ls, event, data) ==
    LET first == {k \in DOMAIN ls[event] :
                     \A j \in DOMAIN ls[event] : ls[event][j] = ls[event][k] => k <= j}
        kept == SelectSeq([k \in DOMAIN ls[event] |-> k], LAMBDA k : k \in first)
    IN  [n \in DOMAIN kept |->
            [handler |-> ls[event][kept[n]], name |-> event, data |-> data]]

\* _emit: the handlers run by one emission, in order
Emit(ls, event, data) ==
    [k \in DOMAIN ls[event] |->
        [handler |-> ls[event][k], name |-> event, data |-> data]]

\* the handlers run by the emissions of one call, in order
RECURSIVE Deliver(_, _)
Deliver(ls, ev) ==
    IF ev = << >> THEN << >>
    ELSE Emit(ls, Head(ev).name, Head(ev).data) \o Deliver(ls, Tail(ev))

\* snapshot()
snapshot(s) ==
    [phase |-> s.phase,
     time |-> s.time,
     momentum |-> s.momentum,
     lives |-> s.lives,
     score |-> s.score,
     multiplier |-> s.multiplier,
     combo |-> s.combo,
     speed |-> s.speed,
     distance |-> s.distance,
     hitstopRemaining |-> s.hitstopRemaining,
     obstacles |-> [i \in DOMAIN s.obstacles |->
                      [id |-> s.obstacles[i].id,
                       position |-> s.obstacles[i].position,
                       hit |-> s.obstacles[i].hit,
                       missed |-> s.obstacles[i].missed,
                       quality |-> s.obstacles[i].quality]],
     lastHit |-> IF s.lastHit # << >>
                 THEN <<[quality |-> s.lastHit[1].quality,
                         precisionMs |-> s.lastHit[1].precisionMs]>>
                 ELSE << >>,
     screenShake |-> s.screenShake,
     flashIntensity |-> s.flashIntensity,
     flashColor |-> s.flashColor]

\* a freshly constructed engine
NewEngine(c) ==
    [state |-> ResetState(c), listeners |-> NoListeners, invoked |-> << >>]

-----------------------------------------------------------------------------
(* The engine as a state machine: one action per public method *)

\* bound of the exploration: the number of updates that advance the clock
MaxTick == 2

\* construct(config): DEFAULT_CONFIG, or DEFAULT_CONFIG with a short-run override
ShortRun ==
    [DEFAULT_CONFIG EXCEPT !.graceObstacles = 0, !.startingLives = 1,
                           !.maxLives = 2, !.comboLifeReward = 2]

Configs == {DEFAULT_CONFIG, ShortRun}

\* frame times passed to update, in ms
DTs == {900, 1700}

\* values of Math.random(), in 1/1000 (500: an interval of exactly one tempo)
RandomDraws == {500}

\* tap instants: relative to the hitTime of an obstacle of the collection
TapDiffs == {-151, -150, 0, 80, 81}

TapArgs(s) ==
    {<< >>} \cup
    {<<s.obstacles[i].hitTime + d>> : i \in DOMAIN s.obstacles, d \in TapDiffs}

Init ==
    /\ config \in Configs
    /\ state = ResetState(config)
    /\ lastCall = "construct"
    /\ ret = << >>
    /\ emitted = << >>
    /\ listeners = NoListeners
    /\ invoked = << >>
    /\ twin = NewEngine(config)

Reset ==
    /\ state' = ResetState(config)
    /\ lastCall' = "reset"
    /\ ret' = << >>
    /\ emitted' = << >>
    /\ invoked' = Deliver(listeners, emitted')
    /\ UNCHANGED <<config, listeners, twin>>

Start ==
    \E r1 \in RandomDraws, r2 \in RandomDraws :
        /\ state' = StartCall(state, config, r1, r2)
        /\ lastCall' = "start"
        /\ ret' = << >>
        /\ emitted' = << >>
        /\ invoked' = Deliver(listeners, emitted')
        /\ UNCHANGED <<config, listeners, twin>>

Tap ==
    \E atTime \in TapArgs(state) :
        LET r == TapCall(state, config, atTime)
        IN  /\ state' = r.state
            /\ lastCall' = "tap"
            /\ ret' = r.ret
            /\ emitted' = r.emitted
            /\ invoked' = Deliver(listeners, emitted')
            /\ UNCHANGED <<config, listeners, twin>>

\* the clock advances only within the bound
WithinBounds(s, dt) ==
    (s.phase = "running" /\ s.hitstopRemaining = 0) => s.tick < MaxTick

Update ==
    \E dt \in DTs, r1 \in RandomDraws, r2 \in RandomDraws :
        /\ WithinBounds(state, dt)
        /\ LET r == UpdateCall(state, config, dt, r1, r2)
           IN  /\ state' = r.state
               /\ emitted' = r.emitted
        /\ lastCall' = "update"
        /\ ret' = << >>
        /\ invoked' = Deliver(listeners, emitted')
        /\ UNCHANGED <<config, listeners, twin>>

Next == Start \/ Tap \/ Update \/ Reset

Spec == Init /\ [][Next]_vars

-----------------------------------------------------------------------------
(* SpecLate: the default engine driven past windowShrinkStart, where the   *)
(* difficulty scale is below 1.  One long frame carries the clock to 60 s  *)
(* (scale 0.94: windows 47 / 94 / 141 ms).                                 *)

LateDTs == {900, 60000}

LateTapDiffs == {-142, -141, -48, 0, 80}

LateTapArgs(s) ==
    {<< >>} \cup
    {<<s.obstacles[i].hitTime + d>> : i \in DOMAIN s.obstacles, d \in LateTapDiffs}

InitLate ==
    /\ config = DEFAULT_CONFIG
    /\ state = ResetState(config)
    /\ lastCall = "construct"
    /\ ret = << >>
    /\ emitted = << >>
    /\ listeners = NoListeners
    /\ invoked = << >>
    /\ twin = NewEngine(config)

LateTap ==
    \E atTime \in LateTapArgs(state) :
        LET r == TapCall(state, config, atTime)
        IN  /\ state' = r.state
            /\ lastCall' = "tap"
            /\ ret' = r.ret
            /\ emitted' = r.emitted
            /\ invoked' = Deliver(listeners, emitted')
            /\ UNCHANGED <<config, listeners, twin>>

LateUpdate ==
    \E dt \in LateDTs, r1 \in RandomDraws, r2 \in RandomDraws :
        /\ WithinBounds(state, dt)
        /\ LET r == UpdateCall(state, config, dt, r1, r2)
           IN  /\ state' = r.state
               /\ emitted' = r.emitted
        /\ lastCall' = "update"
        /\ ret' = << >>
        /\ invoked' = Deliver(listeners, emitted')
        /\ UNCHANGED <<config, listeners, twin>>

NextLate == Start \/ LateTap \/ LateUpdate \/ Reset

SpecLate == InitLate /\ [][NextLate]_vars

-----------------------------------------------------------------------------
(* SpecCombo: engines without grace obstacles whose combo milestone is     *)
(* every 2nd combo: one starting below its life cap with a single life     *)
(* (ShortRun), one starting at its life cap of 5 (ComboRun).               *)

ComboRun == [DEFAULT_CONFIG EXCEPT !.comboLifeReward = 2, !.graceObstacles = 0]

InitCombo ==
    /\ config \in {ShortRun, ComboRun}
    /\ state = ResetState(config)
    /\ lastCall = "construct"
    /\ ret = << >>
    /\ emitted = << >>
    /\ listeners = NoListeners
    /\ invoked = << >>
    /\ twin = NewEngine(config)

SpecCombo == InitCombo /\ [][Next]_vars

-----------------------------------------------------------------------------
(* SpecEndless: one run, never reset, of an engine with a single life, no  *)
(* grace obstacles and windows that shrink from the start and reach their  *)
(* floor of 20% after 2 s.  The driver keeps calling update (weak          *)
(* fairness) up to a horizon of Horizon clock-advancing frames of 700 ms;  *)
(* the player taps at an obstacle's hit time, or not at all.               *)

Horizon == 6

FastShrink ==
    [DEFAULT_CONFIG EXCEPT !.graceObstacles = 0, !.startingLives = 1,
                           !.maxLives = 1, !.windowShrinkStart = 0,
                           !.windowShrinkRate = 400000]

EndlessDTs == {700}

EndlessTapDiffs == {0}

InitEndless ==
    /\ config = FastShrink
    /\ state = ResetState(config)
    /\ lastCall = "construct"
    /\ ret = << >>
    /\ emitted = << >>
    /\ listeners = NoListeners
    /\ invoked = << >>
    /\ twin = NewEngine(config)

EndlessTap ==
    \E i \in DOMAIN state.obstacles, d \in EndlessTapDiffs :
        LET r == TapCall(state, config, <<state.obstacles[i].hitTime + d>>)
        IN  /\ state' = r.state
            /\ lastCall' = "tap"
            /\ ret' = r.ret
            /\ emitted' = r.emitted
            /\ invoked' = Deliver(listeners, emitted')
            /\ UNCHANGED <<config, listeners, twin>>

EndlessUpdate ==
    \E dt \in EndlessDTs, r1 \in RandomDraws, r2 \in RandomDraws :
        /\ (state.phase = "running" /\ state.hitstopRemaining = 0)
              => state.tick < Horizon
        /\ LET r == UpdateCall(state, config, dt, r1, r2)
           IN  /\ state' = r.state
               /\ emitted' = r.emitted
        /\ lastCall' = "update"
        /\ ret' = << >>
        /\ invoked' = Deliver(listeners, emitted')
        /\ UNCHANGED <<config, listeners, twin>>

NextEndless == Start \/ EndlessTap \/ EndlessUpdate

\* ENABLED <<EndlessUpdate>>_vars: an update is within the horizon and would
\* change the state or the record of the last call
UpdateEnabled ==
    IF state.phase = "running"
    THEN state.hitstopRemaining > 0 \/ state.tick < Horizon
    ELSE lastCall # "update" \/ ret # << >> \/ emitted # << >>
                             \/ invoked # << >>

\* WF_vars(EndlessUpdate), written out: the steps of NextEndless that set
\* lastCall to "update" are the steps of EndlessUpdate
KeepsUpdating ==
    <>[]UpdateEnabled => []<><<lastCall' = "update">>_vars

\* the driver's engine.start() on the engine it has just constructed
FirstStart == state.phase = "ready" /\ Start

\* fairness of the driver: it starts the run and keeps calling update
SpecEndless ==
    InitEndless /\ [][NextEndless]_vars /\ WF_vars(FirstStart) /\ KeepsUpdating

-----------------------------------------------------------------------------
(* SpecScale: the default engine, never tapped, carried by long frames     *)
(* over the whole range of the difficulty scale: to windowShrinkStart      *)
(* (45 s), to the clock where the scale meets its floor (245 s) and past   *)
(* it.                                                                     *)

ScaleDTs == {0, 1, 250, 45000, 99999, 100000, 122500, 145000, 145001, 150000}

ScaleUpdate ==
    \E dt \in ScaleDTs, r1 \in RandomDraws, r2 \in RandomDraws :
        /\ WithinBounds(state, dt)
        /\ LET r == UpdateCall(state, config, dt, r1, r2)
           IN  /\ state' = r.state
               /\ emitted' = r.emitted
        /\ lastCall' = "update"
        /\ ret' = << >>
        /\ invoked' = Deliver(listeners, emitted')
        /\ UNCHANGED <<config, listeners, twin>>

NextScale == Start \/ ScaleUpdate \/ Reset

SpecScale == InitLate /\ [][NextScale]_vars

-----------------------------------------------------------------------------
(* SpecBus: two engines constructed with the ShortRun configuration.       *)
(* Handlers are registered on each, and every start, tap, update and reset *)
(* is made on both engines with the same arguments and the same jitter     *)
(* draws.                                                                  *)

\* bound: the number of registrations on the first engine
MaxListeners == 2

Handlers == {"f", "g"}

TwinHandlers == {"g"}

BusEvents == {"hit", "miss"}

BusDTs == {900}

\* the registrations held by a listener table: <<event name, position>>
Registered(ls) ==
    {<<e, k>> \in EventNames \X (1..MaxListeners + 1) : k <= Len(ls[e])}

InitBus ==
    /\ config = ShortRun
    /\ state = ResetState(config)
    /\ lastCall = "construct"
    /\ ret = << >>
    /\ emitted = << >>
    /\ listeners = NoListeners
    /\ invoked = << >>
    /\ twin = NewEngine(config)

\* engine.on(event, fn)
Register ==
    \E e \in BusEvents, h \in Handlers :
        /\ Cardinality(Registered(listeners)) < MaxListeners
        /\ listeners' = on(listeners, e, h)
        /\ lastCall' = "on"
        /\ ret' = << >>
        /\ emitted' = << >>
        /\ invoked' = << >>
        /\ UNCHANGED <<config, state, twin>>

\* twin.on(event, fn), once
TwinRegister ==
    \E e \in BusEvents, h \in TwinHandlers :
        /\ twin.listeners = NoListeners
        /\ twin' = [twin EXCEPT !.listeners = on(@, e, h), !.invoked = << >>]
        /\ UNCHANGED <<config, state, lastCall, ret, emitted, listeners, invoked>>

\* mutant: reset also empties this._listeners
BothResetClearsListeners ==
    /\ state' = ResetState(config)
    /\ lastCall' = "reset"
    /\ ret' = << >>
    /\ emitted' = << >>
    /\ invoked' = << >>
    /\ twin' = [twin EXCEPT !.state = ResetState(config), !.invoked = << >>]
    /\ listeners' = NoListeners
    /\ UNCHANGED config

BothReset ==
    /\ state' = ResetState(config)
    /\ lastCall' = "reset"
    /\ ret' = << >>
    /\ emitted' = << >>
    /\ invoked' = << >>
    /\ twin' = [twin EXCEPT !.state = ResetState(config), !.invoked = << >>]
    /\ UNCHANGED <<config, listeners>>

BothStart ==
    \E r1 \in RandomDraws, r2 \in RandomDraws :
        /\ state' = StartCall(state, config, r1, r2)
        /\ lastCall' = "start"
        /\ ret' = << >>
        /\ emitted' = << >>
        /\ invoked' = << >>
        /\ twin' = [twin EXCEPT !.state = StartCall(@, config, r1, r2),
                                !.invoked = << >>]
        /\ UNCHANGED <<config, listeners>>

BothTap ==
    \E i \in DOMAIN state.obstacles :
        LET atTime == <<state.obstacles[i].hitTime>>
            r == TapCall(state, config, atTime)
            t == TapCall(twin.state, config, atTime)
        IN  /\ state' = r.state
            /\ lastCall' = "tap"
            /\ ret' = r.ret
            /\ emitted' = r.emitted
            /\ invoked' = Deliver(listeners, r.emitted)
            /\ twin' = [twin EXCEPT !.state = t.state,
                                    !.invoked = Deliver(twin.listeners, t.emitted)]
            /\ UNCHANGED <<config, listeners>>

\* mutant: the second engine draws its own jitter
BothUpdateOwnDraws ==
    \E dt \in BusDTs, r1 \in RandomDraws, r2 \in RandomDraws :
        /\ WithinBounds(state, dt)
        /\ LET r == UpdateCall(state, config, dt, r1, r2)
               t == UpdateCall(twin.state, config, dt, 1000 - r1, 0)
           IN  /\ state' = r.state
               /\ emitted' = r.emitted
               /\ invoked' = Deliver(listeners, r.emitted)
               /\ twin' = [twin EXCEPT !.state = t.state,
                                       !.invoked = Deliver(twin.listeners, t.emitted)]
        /\ lastCall' = "update"
        /\ ret' = << >>
        /\ UNCHANGED <<config, listeners>>

BothUpdate ==
    \E dt \in BusDTs, r1 \in RandomDraws, r2 \in RandomDraws :
        /\ WithinBounds(state, dt)
        /\ LET r == UpdateCall(state, config, dt, r1, r2)
               t == UpdateCall(twin.state, config, dt, r1, r2)
           IN  /\ state' = r.state
               /\ emitted' = r.emitted
               /\ invoked' = Deliver(listeners, r.emitted)
               /\ twin' = [twin EXCEPT !.state = t.state,
                                       !.invoked = Deliver(twin.listeners, t.emitted)]
        /\ lastCall' = "update"
        /\ ret' = << >>
        /\ UNCHANGED <<config, listeners>>

NextBus ==
    Register \/ TwinRegister \/ BothStart \/ BothTap \/ BothUpdate \/ BothReset

SpecBus == InitBus /\ [][NextBus]_vars

-----------------------------------------------------------------------------
(* SpecGrace: engines whose grace period ends within the run: the first    *)
(* obstacle only (OneGrace) or the first two (TwoGrace) are protected.     *)

OneGrace == [DEFAULT_CONFIG EXCEPT !.graceObstacles = 1]

TwoGrace == [DEFAULT_CONFIG EXCEPT !.graceObstacles = 2]

InitGrace ==
    /\ config \in {OneGrace, TwoGrace}
    /\ state = ResetState(config)
    /\ lastCall = "construct"
    /\ ret = << >>
    /\ emitted = << >>
    /\ listeners = NoListeners
    /\ invoked = << >>
    /\ twin = NewEngine(config)

SpecGrace == InitGrace /\ [][Next]_vars

-----------------------------------------------------------------------------
(* SpecDriver: the programs around the engine.  state is the engine of the *)
(* batch simulation (simulateRun), twin the engine of the game page        *)
(* (main.js, drawn by the Renderer).  One of the two programs runs.        *)
(* An absent property of a JS object is a field absent from the record.    *)

\* obj[f] = v, creating the property when the object has none
WithField(o, f, v) == [k \in DOMAIN o \cup {f} |-> IF k = f THEN v ELSE o[k]]

\* obj[f] !== undefined
Has(o, f) == f \in DOMAIN o

\* !obj[f] for a property that is only ever set to true
Falsy(o, f) == ~Has(o, f) \/ o[f] = FALSE

\* simulateRun's maxTime argument, in ms
SimMaxTime == 1200

\* const DT = 16.67, in the model's whole ms
SimDT == 17

\* the plan drawn for an obstacle: << >> for null (Math.random() < missRate),
\* <<d>> for earlyOrLate * precision
PlanDraws == {<< >>, <<-30>>, <<0>>}

\* the body of simulateRun's for loop, for the obstacle at place i
SimVisit(r, c, i, now, draw) ==
    LET s == r.state
        obs == s.obstacles[i]
        drawn == IF draw = << >> THEN << >> ELSE <<obs.hitTime + draw[1]>>
        planned == IF Has(obs, "_plan") THEN s
                   ELSE [s EXCEPT !.obstacles[i] = WithField(@, "_plan", drawn)]
        plan == planned.obstacles[i]._plan
    IN  IF Terminal(obs) THEN r
        ELSE IF plan = << >> THEN [r EXCEPT !.state = planned]
        ELSE IF now >= plan[1] - SimDT /\ now <= plan[1] + SimDT
             THEN LET t == TapCall(planned, c, plan)
                  IN  [state |-> t.state,
                       emitted |-> r.emitted \o t.emitted,
                       ret |-> t.ret]
             ELSE [r EXCEPT !.state = planned]

\* for (const obs of engine.state.obstacles), from place i on
RECURSIVE SimLoop(_, _, _, _, _)
SimLoop(r, c, i, now, draw) ==
    IF i > Len(r.state.obstacles) THEN r
    ELSE SimLoop(SimVisit(r, c, i, now, draw), c, i + 1, now, draw)

\* simulateRun: new GameEngine(); engine.start()
SimStart ==
    \E r1 \in RandomDraws, r2 \in RandomDraws :
        /\ state.phase = "ready"
        /\ twin.state.phase = "ready"
        /\ state' = StartCall(state, config, r1, r2)
        /\ lastCall' = "start"
        /\ ret' = << >>
        /\ emitted' = << >>
        /\ invoked' = Deliver(listeners, emitted')
        /\ UNCHANGED <<config, listeners, twin>>

\* one turn of simulateRun's while loop: update(DT), then the plans and taps
SimFrame ==
    \E draw \in PlanDraws, r1 \in RandomDraws, r2 \in RandomDraws :
        /\ state.phase = "running"
        /\ state.time < SimMaxTime
        /\ LET u == UpdateCall(state, config, SimDT, r1, r2)
               r == SimLoop([state |-> u.state, emitted |-> u.emitted,
                             ret |-> << >>],
                            config, 1, u.state.time, draw)
           IN  /\ state' = r.state
               /\ emitted' = r.emitted
               /\ ret' = r.ret
               /\ lastCall' = IF r.emitted = u.emitted /\ r.ret = << >>
                              THEN "update" ELSE "tap"
        /\ invoked' = Deliver(listeners, emitted')
        /\ UNCHANGED <<config, listeners, twin>>

\* bound of the exploration: the number of frames the page draws
MaxFrame == 12

\* frame times of the page: gameLoop replaces a dt above 100 by 16.67
PageDTs == {100}

\* min(sinceLastFrame, 50) of getEngineTapTime
PageTapOffsets == {0}

\* main.js: the engine of the page with the glue's lastLives
Page(c) ==
    [state |-> ResetState(c), listeners |-> NoListeners, invoked |-> << >>,
     lastLives |-> 0]

\* gameLoop's "check for miss events": s.obstacles.find(...)._missPlayed = true
MarkMissPlayed(s) ==
    LET found == {i \in DOMAIN s.obstacles :
                     s.obstacles[i].missed /\ Falsy(s.obstacles[i], "_missPlayed")}
        first == CHOOSE i \in found : \A j \in found : i <= j
    IN  IF found = {} THEN s
        ELSE [s EXCEPT !.obstacles[first] = WithField(@, "_missPlayed", TRUE)]

\* Renderer._drawRings: the marks it leaves on the obstacles it draws
DrawRing(obs) ==
    IF obs.hit
    THEN IF Falsy(obs, "_shattered") THEN WithField(obs, "_shattered", TRUE)
         ELSE obs
    ELSE IF obs.missed
         THEN IF Falsy(obs, "_missAnimated")
              THEN WithField(obs, "_missAnimated", TRUE)
              ELSE obs
         ELSE obs

drawRings(s) ==
    [s EXCEPT !.obstacles = [i \in DOMAIN s.obstacles |-> DrawRing(s.obstacles[i])]]

\* handleTap in phase ready: engine.start(); lastLives = s.lives
PageStart ==
    \E r1 \in RandomDraws, r2 \in RandomDraws :
        /\ twin.state.phase = "ready"
        /\ state.phase = "ready"
        /\ LET started == StartCall(twin.state, config, r1, r2)
           IN  twin' = [twin EXCEPT !.state = started,
                                    !.invoked = << >>,
                                    !.lastLives = started.lives]
        /\ UNCHANGED <<config, state, lastCall, ret, emitted, listeners, invoked>>

\* handleTap in phase running: engine.tap(getEngineTapTime())
PageTap ==
    \E offset \in PageTapOffsets :
        /\ twin.state.phase = "running"
        /\ LET t == TapCall(twin.state, config, <<twin.state.time + offset>>)
           IN  twin' = [twin EXCEPT !.state = t.state,
                                    !.invoked = Deliver(twin.listeners, t.emitted)]
        /\ UNCHANGED <<config, state, lastCall, ret, emitted, listeners, invoked>>

\* gameLoop in phase running: update(dt), the miss check, renderer.render
PageFrame ==
    \E dt \in PageDTs, r1 \in RandomDraws, r2 \in RandomDraws :
        /\ twin.state.phase = "running"
        /\ twin.state.hitstopRemaining = 0 => twin.state.tick < MaxFrame
        /\ LET u == UpdateCall(twin.state, config, dt, r1, r2)
               lost == u.state.lives < twin.lastLives
               checked == IF lost THEN MarkMissPlayed(u.state) ELSE u.state
           IN  twin' = [twin EXCEPT !.state = drawRings(checked),
                                    !.invoked = Deliver(twin.listeners, u.emitted),
                                    !.lastLives = u.state.lives]
        /\ UNCHANGED <<config, state, lastCall, ret, emitted, listeners, invoked>>

InitDriver ==
    /\ config = DEFAULT_CONFIG
    /\ state = ResetState(config)
    /\ lastCall = "construct"
    /\ ret = << >>
    /\ emitted = << >>
    /\ listeners = NoListeners
    /\ invoked = << >>
    /\ twin = Page(config)

NextDriver == SimStart \/ SimFrame \/ PageStart \/ PageTap \/ PageFrame

SpecDriver == InitDriver /\ [][NextDriver]_vars

-----------------------------------------------------------------------------
(* Notions shared by the properties *)

-----------------------------------------------------------------------------
(* SpecJitter: the default engine, never tapped, over Horizon frames of    *)
(* 900 ms, with the interval jitter drawn at both ends of Math.random()'s  *)
(* range and in the middle.                                                *)

\* values of the second Math.random() of _spawnObstacle, in 1/1000
JitterDraws == {0, 500, 999}

JitterStart ==
    \E r1 \in RandomDraws, r2 \in JitterDraws :
        /\ state' = StartCall(state, config, r1, r2)
        /\ lastCall' = "start"
        /\ ret' = << >>
        /\ emitted' = << >>
        /\ invoked' = Deliver(listeners, emitted')
        /\ UNCHANGED <<config, listeners, twin>>

JitterUpdate ==
    \E dt \in BusDTs, r1 \in RandomDraws, r2 \in JitterDraws :
        /\ (state.phase = "running" /\ state.hitstopRemaining = 0)
              => state.tick < Horizon
        /\ LET r == UpdateCall(state, config, dt, r1, r2)
           IN  /\ state' = r.state
               /\ emitted' = r.emitted
        /\ lastCall' = "update"
        /\ ret' = << >>
        /\ invoked' = Deliver(listeners, emitted')
        /\ UNCHANGED <<config, listeners, twin>>

NextJitter == JitterStart \/ JitterUpdate

SpecJitter == InitLate /\ [][NextJitter]_vars

-----------------------------------------------------------------------------
(* SpecBias: an engine constructed with an early bias of 20 ms.            *)

EarlyBiased == [DEFAULT_CONFIG EXCEPT !.earlyBias = 20]

InitBias ==
    /\ config = EarlyBiased
    /\ state = ResetState(config)
    /\ lastCall = "construct"
    /\ ret = << >>
    /\ emitted = << >>
    /\ listeners = NoListeners
    /\ invoked = << >>
    /\ twin = NewEngine(config)

SpecBias == InitBias /\ [][Next]_vars

-----------------------------------------------------------------------------
(* SpecIdle: runs that are never tapped: after start() the driver keeps     *)
(* calling update with one frame time, 17 ms (the batch driver's) or 100 ms *)
(* (the longest frame of the page), on the default engine or on one whose  *)
(* grace period is a single obstacle.  Nothing bounds the run but the      *)
(* engine itself: an update in phase dead changes nothing.                 *)

IdleConfigs == {DEFAULT_CONFIG, OneGrace}

IdleDTs == {SimDT, 100}

InitIdle ==
    /\ config \in IdleConfigs
    /\ state = ResetState(config)
    /\ lastCall = "construct"
    /\ ret = << >>
    /\ emitted = << >>
    /\ listeners = NoListeners
    /\ invoked = << >>
    /\ twin = NewEngine(config)

\* the driver's frame time is the same in every call: without hits no frame
\* is frozen, so the clock is tick frames old
IdleUpdate ==
    \E dt \in IdleDTs, r1 \in RandomDraws, r2 \in RandomDraws :
        /\ state.time = state.tick * dt
        /\ LET r == UpdateCall(state, config, dt, r1, r2)
           IN  /\ state' = r.state
               /\ emitted' = r.emitted
        /\ lastCall' = "update"
        /\ ret' = << >>
        /\ invoked' = Deliver(listeners, emitted')
        /\ UNCHANGED <<config, listeners, twin>>

NextIdle == Start \/ IdleUpdate

\* ENABLED <<IdleUpdate>>_vars: an update changes the state (the clock of a
\* running engine, or its hitstop) or the record of the last call
IdleUpdateEnabled ==
    \/ state.phase = "running"
    \/ lastCall # "update" \/ ret # << >> \/ emitted # << >> \/ invoked # << >>

\* WF_vars(IdleUpdate), written out: the steps of NextIdle that set lastCall
\* to "update" are the steps of IdleUpdate
KeepsUpdatingIdle ==
    <>[]IdleUpdateEnabled => []<><<lastCall' = "update">>_vars

\* fairness of the driver: it starts the run and keeps calling update
SpecIdle ==
    InitIdle /\ [][NextIdle]_vars /\ WF_vars(FirstStart) /\ KeepsUpdatingIdle

Obstacles == {state.obstacles[i] : i \in DOMAIN state.obstacles}

CountEvents(ev, name) == Cardinality({i \in DOMAIN ev : ev[i].name = name})

Returned == ret # << >>

DefaultEngine == config = DEFAULT_CONFIG

-----------------------------------------------------------------------------
LivesInRange ==
    /\ state.lives \in Int
    /\ 0 <= state.lives /\ state.lives <= config.maxLives

\* C3: the death event is emitted exactly once per run: only by an update,
\* in the call in which a non-grace miss decrements lives to 0, with phase
\* dead when the call returns, and never a second time in the same call.
DeathExactlyOnce ==
    LET n == CountEvents(emitted, "death")
    IN  /\ n <= 1
        /\ n = 1 => (lastCall = "update" /\ state.phase = "dead" /\ state.lives = 0)

\* C4: start() when phase is not ready, and update(dt) or tap(t) when phase
\* is not running, leave the entire state unchanged, emit no event, and such
\* a tap returns null.
WrongPhaseStep ==
    \/ lastCall' = "start" /\ state.phase # "ready"
    \/ lastCall' \in {"update", "tap"} /\ state.phase # "running"

WrongPhaseNoOp ==
    [][WrongPhaseStep => (state' = state /\ emitted' = << >> /\ ret' = << >>)]_vars

\* a tap made in phase dead while a non-terminal obstacle was in reach
WrongPhaseCalled ==
    /\ state.phase = "dead"
    /\ lastCall = "tap"
    /\ \E o \in Obstacles : ~Terminal(o)

\* C5: in phase running, every tap that returns null leaves the entire state
\* unchanged and emits no event.
NullTapNoOp ==
    [][(lastCall' = "tap" /\ state.phase = "running" /\ ret' = << >>)
          => (state' = state /\ emitted' = << >>)]_vars

\* a tap in phase running that returned null although a non-terminal
\* obstacle was there to be matched
NullTapWithPending ==
    /\ state.phase = "running"
    /\ lastCall = "tap" /\ ~Returned
    /\ \E o \in Obstacles : ~Terminal(o)

\* C6: the phase changes only ready -> running by start(), running -> dead
\* inside update() by a miss that drains lives, and any phase -> ready by
\* reset(); tap never changes it and once dead only reset() changes it.
PhaseStep ==
    \/ state'.phase = state.phase
    \/ /\ state.phase = "ready" /\ state'.phase = "running"
       /\ lastCall' = "start"
    \/ /\ state.phase = "running" /\ state'.phase = "dead"
       /\ lastCall' = "update"
       /\ state'.lives <= 0
       /\ CountEvents(emitted', "miss") >= 1
    \/ /\ state'.phase = "ready"
       /\ lastCall' = "reset"

PhaseTransitions ==
    [][PhaseStep /\ (lastCall' = "reset" => state'.phase = "ready")]_vars

\* an update that ended the run
DiedInUpdate ==
    /\ lastCall = "update"
    /\ state.phase = "dead"

\* C7: for every obstacle, hit and missed are never both true; once either
\* is true neither flag nor quality nor hitDiff changes again; quality and
\* hitDiff are non-null exactly when hit is true.
FlagsConsistent(o) ==
    /\ ~(o.hit /\ o.missed)
    /\ o.hit <=> o.quality # "null"
    /\ o.hit <=> o.hitDiff # << >>

Outcome(o) == <<o.hit, o.missed, o.quality, o.hitDiff>>

\* obstacles are identified by id within a run; reset() starts a new run
TerminalFrozen ==
    lastCall' # "reset" =>
        \A i \in DOMAIN state.obstacles : \A j \in DOMAIN state'.obstacles :
            (Terminal(state.obstacles[i])
               /\ state'.obstacles[j].id = state.obstacles[i].id)
            => Outcome(state'.obstacles[j]) = Outcome(state.obstacles[i])

TerminalFlagsFinal ==
    /\ [](\A o \in Obstacles : FlagsConsistent(o))
    /\ [][TerminalFrozen]_vars

\* a tap made while a missed and a hit obstacle were in the collection
TappedAmongTerminal ==
    /\ lastCall = "tap"
    /\ \E o \in Obstacles : o.missed
    /\ \E o \in Obstacles : o.hit

\* C8: after every update entered in phase running with hitstopRemaining = 0,
\* every obstacle of the collection whose late cutoff has passed
\* (time > hitTime + maxLateMs) is terminal.
CutoffEnforced ==
    [][(lastCall' = "update" /\ state.phase = "running"
          /\ state.hitstopRemaining = 0)
       => \A j \in DOMAIN state'.obstacles :
             PastCutoff(state', config, state'.obstacles[j])
                => Terminal(state'.obstacles[j])]_vars

\* C9: every obstacle ever created satisfies spawnTime < hitTime.
SpawnBeforeHit == \A o \in Obstacles : o.spawnTime < o.hitTime

\* C10: no obstacle is ever marked hit with hitDiff > maxLateMs: a tap whose
\* nearest non-terminal obstacle has t - hitTime > maxLateMs returns null and
\* leaves that obstacle non-terminal, while a tap with t - hitTime exactly
\* maxLateMs is still classified.
Nearest(s, i, t) ==
    /\ ~Terminal(s.obstacles[i])
    /\ \A j \in DOMAIN s.obstacles :
          ~Terminal(s.obstacles[j])
             => /\ Abs(t - s.obstacles[i].hitTime) <= Abs(t - s.obstacles[j].hitTime)
                /\ (j < i => Abs(t - s.obstacles[i].hitTime)
                               < Abs(t - s.obstacles[j].hitTime))

LateCutoff ==
    /\ \A o \in Obstacles : o.hit => o.hitDiff[1] <= config.maxLateMs
    /\ state.phase = "running" =>
         \A i \in DOMAIN state.obstacles :
            LET h == state.obstacles[i].hitTime
                late == TapCall(state, config, <<h + config.maxLateMs + 1>>)
                edge == TapCall(state, config, <<h + config.maxLateMs>>)
                goW == Window(config.goodWindow, getDifficultyScale(state, config), 0)
            IN  /\ Nearest(state, i, h + config.maxLateMs + 1)
                      => late.ret = << >> /\ late.state = state
                /\ (Nearest(state, i, h + config.maxLateMs) /\ config.maxLateMs <= goW)
                      => /\ edge.ret # << >>
                         /\ edge.state.obstacles[i].hit
                         /\ edge.state.obstacles[i].hitDiff = <<config.maxLateMs>>

\* an obstacle hit by a tap exactly maxLateMs after its hitTime
HitAtCutoff ==
    /\ lastCall = "tap" /\ Returned
    /\ \E o \in Obstacles :
          o.hit /\ o.id = ret[1].obstacle /\ o.hitDiff = <<config.maxLateMs>>

-----------------------------------------------------------------------------
\* C11: with the default configuration, a tap in phase running whose nearest
\* non-terminal obstacle has diff = t - hitTime <= maxLateMs returns perfect
\* if |diff| <= perfectWindow*scale, otherwise great if |diff| <=
\* greatWindow*scale, otherwise good if |diff| <= goodWindow*scale, otherwise
\* null; precisionMs is |diff|, early is diff < 0; no other quality is
\* returned.

\* |diff| <= w * scale, with scale in Unit (scale <= Unit)
Within(absDiff, w, scale) == absDiff <= w /\ absDiff * Unit <= w * scale

ExpectedQuality(s, c, diff) ==
    LET scale == getDifficultyScale(s, c)
    IN  IF Within(Abs(diff), c.perfectWindow, scale) THEN "perfect"
        ELSE IF Within(Abs(diff), c.greatWindow, scale) THEN "great"
        ELSE IF Within(Abs(diff), c.goodWindow, scale) THEN "good"
        ELSE "null"

\* tap offsets tried on every reachable state: both sides of every window
\* edge at scale 1 and at scale 0.94, and of the late cutoff
EdgeDiffs ==
    {-151, -150, -142, -141, -101, -100, -95, -94, -51, -50, -48, -47,
     -1, 0, 1, 47, 48, 50, 51, 80, 81}

TapClassified(s, c, i, t) ==
    LET r == TapCall(s, c, <<t>>)
        diff == t - s.obstacles[i].hitTime
        q == ExpectedQuality(s, c, diff)
    IN  IF q = "null" THEN r.ret = << >>
        ELSE r.ret = <<[quality |-> q, precisionMs |-> Abs(diff),
                        early |-> diff < 0, obstacle |-> s.obstacles[i].id]>>

ClassifiedByScaledWindows ==
    (DefaultEngine /\ state.phase = "running") =>
        /\ \A i \in DOMAIN state.obstacles : \A d \in EdgeDiffs :
              LET t == state.obstacles[i].hitTime + d
              IN  (Nearest(state, i, t) /\ d <= config.maxLateMs)
                     => TapClassified(state, config, i, t)
        /\ TapCall(state, config, << >>) = TapCall(state, config, <<state.time>>)
        /\ Returned => ret[1].quality \in {"perfect", "great", "good"}

\* past windowShrinkStart, a tap 48 ms early, perfect at scale 1, came back great
GreatByShrunkWindow ==
    /\ DefaultEngine
    /\ state.time > config.windowShrinkStart
    /\ lastCall = "tap" /\ Returned
    /\ ret[1].quality = "great" /\ ret[1].precisionMs = 48 /\ ret[1].early

-----------------------------------------------------------------------------
\* C12: tap considers only the single non-terminal obstacle minimising
\* |t - hitTime| (on a tie, the one earlier in the collection); a call marks
\* at most one obstacle hit, and if the nearest obstacle is rejected no other
\* obstacle is resolved by that call.

\* tap instants tried on a state: around every hit time, and the midpoints
\* between every two hit times
TriedTimes(s) ==
    {s.obstacles[i].hitTime + d : i \in DOMAIN s.obstacles, d \in EdgeDiffs}
    \cup {(s.obstacles[i].hitTime + s.obstacles[j].hitTime) \div 2 :
              i \in DOMAIN s.obstacles, j \in DOMAIN s.obstacles}

Touched(s, t) ==
    {i \in DOMAIN s.obstacles : s.obstacles[i] # t.obstacles[i]}

OnlyNearestConsidered ==
    state.phase = "running" =>
        \A t \in TriedTimes(state) :
            LET r == TapCall(state, config, <<t>>)
            IN  /\ Len(r.state.obstacles) = Len(state.obstacles)
                /\ \A i \in DOMAIN state.obstacles :
                      /\ FindBest(state.obstacles, t, 1, 0, Infinity) = i
                            <=> Nearest(state, i, t)
                      /\ i \in Touched(state, r.state)
                            => /\ Nearest(state, i, t)
                               /\ r.state.obstacles[i].hit
                               /\ ~r.state.obstacles[i].missed
                /\ Cardinality(Touched(state, r.state)) <= 1
                /\ r.ret = << >> => r.state = state

\* a tap resolved the later of two pending obstacles and left the earlier alone
LaterObstacleHit ==
    /\ lastCall = "tap" /\ Returned
    /\ \E i \in DOMAIN state.obstacles, j \in DOMAIN state.obstacles :
          /\ i < j
          /\ ~Terminal(state.obstacles[i])
          /\ state.obstacles[j].hit
          /\ state.obstacles[j].id = ret[1].obstacle

TieState ==
    state.phase = "running" /\
    \E i \in DOMAIN state.obstacles, j \in DOMAIN state.obstacles :
       /\ i < j /\ ~Terminal(state.obstacles[i]) /\ ~Terminal(state.obstacles[j])
       /\ (state.obstacles[j].hitTime - state.obstacles[i].hitTime) % 2 = 0
       /\ Nearest(state, i, (state.obstacles[i].hitTime + state.obstacles[j].hitTime) \div 2)

-----------------------------------------------------------------------------
\* C13: on a hit of tier q the score increases by exactly
\* round(scoreBase[q] * m), m being the multiplier before the hit, and the
\* multiplier becomes clamp(m + multiplierGain[q], 1, maxMultiplier); with
\* the default configuration a tap at exactly an obstacle's hitTime is
\* perfect with precisionMs 0 and, from multiplier 1, adds exactly 300.

HitStep == lastCall' = "tap" /\ ret' # << >>

\* n = Math.round(x4 / MulUnit): n - 1/2 <= x4 / MulUnit < n + 1/2
IsRounded(n, x4) == 2 * MulUnit * n - MulUnit <= 2 * x4
                    /\ 2 * x4 < 2 * MulUnit * n + MulUnit

ScoredStep ==
    LET q == ret'[1].quality
        m == state.multiplier
        raised == m + config.multiplierGain[q]
    IN  /\ IsRounded(state'.score - state.score, config.scoreBase[q] * m)
        /\ state'.multiplier =
              IF raised < MulUnit THEN MulUnit
              ELSE IF raised > config.maxMultiplier THEN config.maxMultiplier
              ELSE raised

ExactTapIsPerfect ==
    (DefaultEngine /\ state.phase = "running") =>
        \A i \in DOMAIN state.obstacles :
            LET t == state.obstacles[i].hitTime
                r == TapCall(state, config, <<t>>)
            IN  Nearest(state, i, t) =>
                   /\ r.ret = <<[quality |-> "perfect", precisionMs |-> 0,
                                 early |-> FALSE,
                                 obstacle |-> state.obstacles[i].id]>>
                   /\ state.multiplier = MulUnit
                         => r.state.score = state.score + 300

ScoreByMultiplierBefore ==
    [](ExactTapIsPerfect) /\ [][HitStep => ScoredStep]_vars

\* two exact taps from multiplier 1: 300 at x1, then 600 at x2
SecondPerfectScored ==
    /\ DefaultEngine
    /\ lastCall = "tap" /\ Returned
    /\ ret[1].quality = "perfect" /\ ret[1].precisionMs = 0
    /\ state.score = 900
    /\ state.multiplier = 3 * MulUnit

-----------------------------------------------------------------------------
(* The misses of one update() call, read from its miss events and from the *)
(* obstacles as they were when the call was entered.                       *)

MissEvents(ev) == {i \in DOMAIN ev : ev[i].name = "miss"}

MissedIds(ev) == {ev[i].data.obstacle : i \in MissEvents(ev)}

\* the obstacle with this id was pending and flagged g when update() was entered
PendingWithGrace(id, g) ==
    \E o \in Obstacles : o.id = id /\ ~Terminal(o) /\ o.graceProtected = g

MissStep == lastCall' = "update" /\ MissEvents(emitted') # {}

\* one miss event per missed obstacle, and one stats.miss per miss event
OneEventPerMiss ==
    /\ Cardinality(MissedIds(emitted')) = Cardinality(MissEvents(emitted'))
    /\ state'.stats.miss = state.stats.miss + Cardinality(MissEvents(emitted'))

-----------------------------------------------------------------------------
\* C14: a miss on a graceProtected obstacle never changes lives and never
\* changes phase, sets combo to 0 and multiplier to 1, leaves score unchanged,
\* and emits exactly one miss event with graceProtected true and no death
\* event.

GraceMissStep ==
    /\ MissStep
    /\ \A id \in MissedIds(emitted') : PendingWithGrace(id, TRUE)

GraceMissEffect ==
    /\ state'.lives = state.lives
    /\ state'.phase = state.phase
    /\ state'.combo = 0
    /\ state'.multiplier = MulUnit
    /\ state'.score = state.score
    /\ OneEventPerMiss
    /\ \A i \in MissEvents(emitted') : emitted'[i].data.graceProtected
    /\ CountEvents(emitted', "death") = 0

GraceMissCostsNoLife == [][GraceMissStep => GraceMissEffect]_vars

\* a grace-protected miss that broke a combo
GraceMissAfterHit ==
    /\ lastCall = "update"
    /\ \E i \in MissEvents(emitted) : emitted[i].data.graceProtected
    /\ state.stats.hitCount > 0
    /\ state.maxCombo > 0 /\ state.combo = 0
    /\ state.lives = config.startingLives

-----------------------------------------------------------------------------
\* C15: a miss on an obstacle that is not graceProtected decrements lives by
\* exactly 1, sets combo to 0 and multiplier to 1, sets momentum to
\* max(0, momentum + missMomentumPenalty), leaves score unchanged, emits
\* exactly one miss event with graceProtected false, and sets phase to dead
\* exactly when the resulting lives is <= 0.

FullMissStep ==
    /\ MissStep
    /\ \A id \in MissedIds(emitted') : PendingWithGrace(id, FALSE)

\* the momentum the single miss of this update() found: the momentum at
\* entry, decayed over dt = the advance of the clock
MomentumAtMiss ==
    LET decayed == state.momentum
                     - (config.momentumDecayPerSec * (state'.time - state.time))
                          \div 1000
    IN  IF decayed < 0 THEN 0 ELSE decayed

FullMissEffect ==
    /\ state'.lives = state.lives - Cardinality(MissEvents(emitted'))
    /\ state'.combo = 0
    /\ state'.multiplier = MulUnit
    /\ state'.score = state.score
    /\ OneEventPerMiss
    /\ \A i \in MissEvents(emitted') : ~emitted'[i].data.graceProtected
    /\ state'.phase = "dead" <=> state'.lives <= 0
    /\ Cardinality(MissEvents(emitted')) = 1 =>
          LET lowered == MomentumAtMiss + config.missMomentumPenalty
          IN  state'.momentum = IF lowered < 0 THEN 0 ELSE lowered

FullMissCostsOneLife == [][FullMissStep => FullMissEffect]_vars

\* a full miss that left the run alive, its momentum floored at 0
FullMissSurvived ==
    /\ lastCall = "update"
    /\ \E i \in MissEvents(emitted) : ~emitted[i].data.graceProtected
    /\ state.phase = "running"
    /\ state.lives = config.maxLives - 1
    /\ state.momentum = 0

-----------------------------------------------------------------------------
\* C16: when a perfect or great hit brings combo to a positive multiple of
\* comboLifeReward, exactly one comboMilestone event is emitted; if lives <
\* maxLives before the hit, lives increases by exactly 1 and exactly one
\* lifeGain event is emitted; if lives = maxLives, lives is unchanged and no
\* lifeGain is emitted.  A hit that brings combo to any other value emits
\* neither event and leaves lives unchanged.

ReachedMilestone ==
    /\ ret'[1].quality \in {"perfect", "great"}
    /\ \E k \in 1..state'.combo : state'.combo = k * config.comboLifeReward

MilestoneEffect ==
    IF ReachedMilestone
    THEN /\ CountEvents(emitted', "comboMilestone") = 1
         /\ state.lives < config.maxLives =>
               /\ state'.lives = state.lives + 1
               /\ CountEvents(emitted', "lifeGain") = 1
         /\ state.lives = config.maxLives =>
               /\ state'.lives = state.lives
               /\ CountEvents(emitted', "lifeGain") = 0
    ELSE /\ CountEvents(emitted', "comboMilestone") = 0
         /\ CountEvents(emitted', "lifeGain") = 0
         /\ state'.lives = state.lives

MilestoneRewards == [][HitStep => MilestoneEffect]_vars

\* a milestone reached with every life still in hand: no life gained
MilestoneAtLifeCap ==
    /\ lastCall = "tap" /\ Returned
    /\ CountEvents(emitted, "comboMilestone") = 1
    /\ CountEvents(emitted, "lifeGain") = 0
    /\ state.combo = config.comboLifeReward
    /\ state.lives = config.maxLives

\* a milestone reached below the life cap: one life gained
MilestoneGainedLife ==
    /\ lastCall = "tap" /\ Returned
    /\ CountEvents(emitted, "comboMilestone") = 1
    /\ CountEvents(emitted, "lifeGain") = 1
    /\ state.stats.livesGained = 1

-----------------------------------------------------------------------------
\* C17: combo increases by exactly 1 on each perfect or great hit, is set to 0
\* by each good hit and each miss (grace or not), and is changed by nothing
\* else; maxCombo always equals the largest value combo has taken since the
\* last reset, so combo <= maxCombo in every state.

ComboStep ==
    IF lastCall' = "reset" THEN state'.combo = 0 /\ state'.maxCombo = 0
    ELSE /\ state'.combo =
               IF HitStep
               THEN (IF ret'[1].quality \in {"perfect", "great"}
                     THEN state.combo + 1 ELSE 0)
               ELSE IF MissStep THEN 0
               ELSE state.combo
         /\ state'.maxCombo =
               IF state'.combo > state.maxCombo THEN state'.combo
               ELSE state.maxCombo

ComboCounts ==
    [](state.combo <= state.maxCombo) /\ [][ComboStep]_vars

\* a good hit that broke a combo of 2
GoodHitBrokeCombo ==
    /\ lastCall = "tap" /\ Returned
    /\ ret[1].quality = "good"
    /\ state.combo = 0
    /\ state.maxCombo = 2

-----------------------------------------------------------------------------
(* Frame lengths tried on every reachable state: none, 1 ms, a 60 Hz       *)
(* frame, the hitstop lengths, and the frames the driver of Spec uses.     *)

FrameDTs == {0, 1, 17, 20, 50} \cup DTs

Frozen == state.phase = "running" /\ state.hitstopRemaining > 0

\* t is s but for hitstopRemaining, screenShake and flashIntensity
OnlyFreezeFields(s, t) ==
    t = [s EXCEPT !.hitstopRemaining = t.hitstopRemaining,
                  !.screenShake = t.screenShake,
                  !.flashIntensity = t.flashIntensity]

-----------------------------------------------------------------------------
\* C18: an update entered in phase running with hitstopRemaining > 0 changes
\* only hitstopRemaining (to max(0, hitstopRemaining - dt)) and the cosmetic
\* fields screenShake and flashIntensity; clock, tick, meters, obstacles,
\* stats and hitLog are unchanged, nothing is spawned, missed or purged, and
\* no event is emitted.

FrozenCallEffect ==
    Frozen =>
        \A dt \in FrameDTs :
            LET r == UpdateCall(state, config, dt, 500, 500)
                left == state.hitstopRemaining - dt
            IN  /\ OnlyFreezeFields(state, r.state)
                /\ r.state.hitstopRemaining = IF left < 0 THEN 0 ELSE left
                /\ r.emitted = << >>

FrozenStep ==
    (lastCall' = "update" /\ Frozen)
        => (OnlyFreezeFields(state, state') /\ emitted' = << >>)

FrozenUpdateOnlyCountsDown == [](FrozenCallEffect) /\ [][FrozenStep]_vars

\* an update spent inside the hitstop of a perfect hit: the clock has never
\* advanced, the shake of the hit has decayed
FrozenUpdateDone ==
    /\ lastCall = "update"
    /\ state.phase = "running"
    /\ state.tick = 0 /\ state.time = 0
    /\ state.stats.perfect = 1
    /\ state.hitstopRemaining = 0
    /\ state.screenShake < HitShake("perfect")

-----------------------------------------------------------------------------
\* C19: after a hit sets hitstopRemaining to H, and with no further hit in
\* between, the total dt of the following update calls that do not advance
\* the clock is at most H, whatever per-frame dt the driver uses.
\*
\* While every frozen update so far was given dt <= hitstopRemaining, the dt
\* consumed since the hit is H - hitstopRemaining; the total stays within H
\* exactly when that also holds of the next frozen update.
FreezeWithinHitstop ==
    Frozen =>
        \A dt \in DTs :
            LET r == UpdateCall(state, config, dt, 500, 500)
            IN  r.state.time = state.time => dt <= state.hitstopRemaining

-----------------------------------------------------------------------------
\* C20: within a run the clock state.time never decreases: it increases by
\* exactly dt on an update entered in phase running with hitstopRemaining = 0,
\* and is left unchanged by tap, by start, by updates entered with
\* hitstopRemaining > 0 and by updates in phases ready and dead.

Unfrozen == state.phase = "running" /\ state.hitstopRemaining = 0

ClockAdvancesByDt ==
    Unfrozen =>
        \A dt \in FrameDTs :
            UpdateCall(state, config, dt, 500, 500).state.time = state.time + dt

ClockStep ==
    lastCall' # "reset" =>
        /\ state'.time >= state.time
        /\ lastCall' \in {"tap", "start"} => state'.time = state.time
        /\ (lastCall' = "update" /\ ~Unfrozen) => state'.time = state.time
        /\ (lastCall' = "update" /\ Unfrozen) => state'.time - state.time \in DTs

ClockMonotone == [](ClockAdvancesByDt) /\ [][ClockStep]_vars

\* a hit by a tap ahead of the clock, on a clock that had advanced: the clock
\* stayed where it was
TapLeftClock ==
    /\ lastCall = "tap" /\ Returned
    /\ state.time > 0
    /\ state.hitLog[Len(state.hitLog)].time = state.time
    /\ \E o \in Obstacles :
          o.id = ret[1].obstacle /\ o.hitTime + o.hitDiff[1] > state.time

-----------------------------------------------------------------------------
AliveAtHorizon ==
    /\ state.phase = "running"
    /\ state.tick = Horizon
    /\ getDifficultyScale(state, config) = 200000
    /\ state.stats.miss = 0
    /\ \A o \in Obstacles : o.hitTime + config.maxLateMs < state.time => o.hit

-----------------------------------------------------------------------------
\* C22: the difficulty scale depends only on the clock: it is 1 while
\* time <= windowShrinkStart, equals
\* max(0.20, 1 - windowShrinkRate*(time - windowShrinkStart)/1000)
\* afterwards, is non-increasing as time grows and is never below 0.20 nor
\* above 1.

\* the scale of an engine, fresh but for its clock
ScaleAt(t) == getDifficultyScale([ResetState(config) EXCEPT !.time = t], config)

\* v is max(0.20, 1 - windowShrinkRate * elapsed / 1000) to the last digit of
\* Unit; x1000 is 1000 times the unfloored value
IsShrunkScale(v, elapsed) ==
    LET x1000 == 1000 * Unit - config.windowShrinkRate * elapsed
    IN  IF x1000 <= 1000 * (Unit \div 5) THEN v = Unit \div 5
        ELSE 1000 * (v - 1) < x1000 /\ x1000 <= 1000 * v

LaterClocks == {0, 1, 1000, 50000}

ScaleOfClock ==
    LET v == getDifficultyScale(state, config)
        elapsed == state.time - config.windowShrinkStart
    IN  /\ v = ScaleAt(state.time)
        /\ Unit \div 5 <= v /\ v <= Unit
        /\ state.time <= config.windowShrinkStart => v = Unit
        /\ state.time > config.windowShrinkStart => IsShrunkScale(v, elapsed)
        /\ \A d \in LaterClocks : ScaleAt(state.time + d) <= v

ScaleStep ==
    state'.time >= state.time
        => getDifficultyScale(state', config) <= getDifficultyScale(state, config)

ScaleShrinksToFloor == [](ScaleOfClock) /\ [][ScaleStep]_vars

\* an update carried the clock past the point where the scale meets its floor
ScaleAtFloor ==
    /\ lastCall = "update"
    /\ state.time > config.windowShrinkStart + 200000
    /\ getDifficultyScale(state, config) = Unit \div 5

\* an update left the scale strictly between its floor and 1
ScaleBetween ==
    /\ lastCall = "update"
    /\ getDifficultyScale(state, config) > Unit \div 5
    /\ getDifficultyScale(state, config) < Unit

-----------------------------------------------------------------------------
\* C23: reset() called in any phase and after any history yields exactly the
\* state of a freshly constructed engine with the same configuration (phase
\* ready, time 0, momentum startingMomentum, lives startingLives, score 0,
\* multiplier 1, combo 0, hitstopRemaining 0, no obstacles, id counter 0,
\* zeroed stats, empty hitLog); it is idempotent and leaves the configuration
\* and all registered listeners unchanged, so listeners registered before a
\* reset still receive events of the next run.

IsFresh(s) ==
    /\ s = NewEngine(config).state
    /\ s.phase = "ready" /\ s.time = 0 /\ s.tick = 0
    /\ s.momentum = config.startingMomentum
    /\ s.lives = config.startingLives
    /\ s.score = 0 /\ s.multiplier = MulUnit
    /\ s.combo = 0 /\ s.maxCombo = 0
    /\ s.hitstopRemaining = 0
    /\ s.obstacles = << >>
    /\ s.obstacleIdCounter = 0 /\ s.obstaclesSpawned = 0
    /\ s.stats.perfect = 0 /\ s.stats.great = 0 /\ s.stats.good = 0
    /\ s.stats.miss = 0 /\ s.stats.hitCount = 0
    /\ s.stats.totalPrecisionMs = 0 /\ s.stats.livesGained = 0
    /\ s.stats.peakCombo = 0
    /\ s.hitLog = << >>

\* every registration made is still there, in its place
ListenersKept(old, new) ==
    \A e \in EventNames :
        /\ Len(old[e]) <= Len(new[e])
        /\ \A k \in DOMAIN old[e] : new[e][k] = old[e][k]

ResetStep ==
    lastCall' = "reset" =>
        /\ IsFresh(state')
        /\ config' = config
        /\ listeners' = listeners
        /\ lastCall = "reset" => state' = state

ResetRestoresFresh ==
    [][ResetStep /\ ListenersKept(listeners, listeners')]_vars

\* a reset of an engine that has a handler for hit and one for miss
ResetWithListeners ==
    /\ lastCall = "reset"
    /\ listeners["hit"] # << >>
    /\ listeners["miss"] # << >>
    /\ IsFresh(state)

\* in a run that started from a fresh state, a handler received a hit
HandlerServedRun ==
    /\ lastCall = "tap"
    /\ invoked # << >>
    /\ state.stats.hitCount = 1

-----------------------------------------------------------------------------
\* C24: each emission of an event invokes, synchronously before the emitting
\* operation returns, every handler registered on that engine instance for
\* that event name, once per registration (a handler registered twice runs
\* twice), in registration order, and invokes no handler registered for
\* another event name or on another engine instance.

\* the number of handlers run by the first n emissions of a call
RECURSIVE RunBefore(_, _, _)
RunBefore(ls, ev, n) ==
    IF n = 0 THEN 0
    ELSE RunBefore(ls, ev, n - 1) + Len(ls[ev[n].name])

\* inv is: for each emission of ev in order, each registration of its event
\* name in ls in order, given the data of the emission
InvokedInOrder(ls, ev, inv) ==
    /\ Len(inv) = RunBefore(ls, ev, Len(ev))
    /\ \A n \in DOMAIN ev : \A k \in DOMAIN ls[ev[n].name] :
          LET call == inv[RunBefore(ls, ev, n - 1) + k]
          IN  /\ call.handler = ls[ev[n].name][k]
              /\ call.name = ev[n].name
              /\ call.data = ev[n].data

HandlersRunAsRegistered ==
    /\ InvokedInOrder(listeners, emitted, invoked)
    /\ \A n \in DOMAIN twin.invoked :
          \E k \in DOMAIN twin.listeners[twin.invoked[n].name] :
             twin.listeners[twin.invoked[n].name][k] = twin.invoked[n].handler

\* a call of on() on the first engine appends one registration
RegisterStep ==
    (lastCall' = "on" /\ twin' = twin) =>
        \E e \in EventNames :
            /\ Len(listeners'[e]) = Len(listeners[e]) + 1
            /\ \A x \in EventNames \ {e} : listeners'[x] = listeners[x]

EmitRunsHandlers ==
    [](HandlersRunAsRegistered)
    /\ [][RegisterStep /\ ListenersKept(listeners, listeners')]_vars

\* a hit ran the handler registered twice for hit twice, while the twin ran
\* its own handler once
TwiceRegisteredRanTwice ==
    /\ lastCall = "tap" /\ Returned
    /\ listeners["hit"] = <<"f", "f">>
    /\ Len(invoked) = 2
    /\ invoked[1].handler = "f" /\ invoked[2].handler = "f"
    /\ twin.listeners["hit"] = <<"g">>
    /\ Len(twin.invoked) = 1

\* a miss ran the handler for miss and not the one for hit
OnlyMissHandlerRan ==
    /\ lastCall = "update"
    /\ listeners["hit"] = <<"f">> /\ listeners["miss"] = <<"g">>
    /\ Len(invoked) = 1 /\ invoked[1].handler = "g"

-----------------------------------------------------------------------------
-----------------------------------------------------------------------------
\* C26: for every obstacle in the active collection, its approachTime field
\* equals hitTime - spawnTime.
ApproachIsHitMinusSpawn ==
    \A o \in Obstacles : o.approachTime = o.hitTime - o.spawnTime

-----------------------------------------------------------------------------
(* The obstacles of the state before and after a step, by id *)

ObstacleWithId(s, id) ==
    CHOOSE o \in {s.obstacles[i] : i \in DOMAIN s.obstacles} : o.id = id

Ids(s) == {s.obstacles[i].id : i \in DOMAIN s.obstacles}

-----------------------------------------------------------------------------
\* C27: in every run, graceProtected is true for exactly the first
\* graceObstacles obstacles created since the last reset (ids 0 ..
\* graceObstacles-1, counting the one created by start()) and false for every
\* later obstacle; the flag never changes after creation, whether or not
\* earlier obstacles were hit or missed.

GraceByRank ==
    \A o \in Obstacles : o.graceProtected <=> o.id < config.graceObstacles

GraceFlagStep ==
    lastCall' # "reset" =>
        \A id \in Ids(state) \cap Ids(state') :
            ObstacleWithId(state', id).graceProtected
               = ObstacleWithId(state, id).graceProtected

GraceForTheFirst == [](GraceByRank) /\ [][GraceFlagStep]_vars

\* the grace period ended after a hit: a protected obstacle was hit, and the
\* obstacle after the last protected one is not protected
GraceEndedAfterHit ==
    /\ \E o \in Obstacles : o.graceProtected /\ o.hit
    /\ \E o \in Obstacles : o.id = config.graceObstacles /\ ~o.graceProtected
    /\ state.stats.miss = 0

-----------------------------------------------------------------------------
\* C28: within a run obstacle ids are unique and assigned in strictly
\* increasing order of creation starting at 0 (id = number of obstacles
\* created before it), ids of purged obstacles are never reused before the
\* next reset, and obstacleIdCounter equals obstaclesSpawned in every state.

IdsInOrder ==
    /\ state.obstacleIdCounter = state.obstaclesSpawned
    /\ \A i \in DOMAIN state.obstacles :
          /\ 0 <= state.obstacles[i].id
          /\ state.obstacles[i].id < state.obstacleIdCounter
          /\ \A j \in DOMAIN state.obstacles :
                i < j => state.obstacles[i].id < state.obstacles[j].id

\* the obstacles a step adds take the ids from the old counter on
IdStep ==
    lastCall' # "reset" =>
        /\ state'.obstacleIdCounter >= state.obstacleIdCounter
        /\ Ids(state') \ Ids(state)
              = {n \in 0..state'.obstacleIdCounter : state.obstacleIdCounter <= n
                                                   /\ n < state'.obstacleIdCounter}

IdsNeverReused == [](IdsInOrder) /\ [][IdStep]_vars

\* obstacle 0 was purged by the update that created obstacle 1 (the first
\* obstacle is due at 1000 and purged from 1800 on), and the next update
\* created obstacle 2
CreatedAfterPurge ==
    /\ state.tick = 2
    /\ Len(state.obstacles) = 2
    /\ state.obstacles[1].id = 1
    /\ state.obstacles[1].spawnTime >= 1800
    /\ state.obstacles[2].id = 2

-----------------------------------------------------------------------------
\* C30: an update entered in phase running with hitstopRemaining = 0 adds at
\* most one obstacle to the collection, and adds one exactly when, after the
\* clock advance, momentum decay and miss processing of that update,
\* time >= nextObstacleTime - approachTime(current momentum); the new
\* obstacle's hitTime equals nextObstacleTime as it was before the spawn and
\* its spawnTime equals max(time, hitTime - approachTime).  tap and reset
\* never create an obstacle.

\* the approach time for the momentum the update left
ApproachAfter == getCurrentApproachTime(state', config)

SpawnStep ==
    LET due == state'.time >= state.nextObstacleTime - ApproachAfter
        added == Ids(state') \ Ids(state)
    IN  /\ added = IF due THEN {state.obstacleIdCounter} ELSE {}
        /\ state'.obstacleIdCounter
              = state.obstacleIdCounter + (IF due THEN 1 ELSE 0)
        /\ due =>
              LET new == ObstacleWithId(state', state.obstacleIdCounter)
                  early == new.hitTime - ApproachAfter
              IN  /\ new.hitTime = state.nextObstacleTime
                  /\ new.spawnTime
                        = IF state'.time > early THEN state'.time ELSE early

NoSpawnStep ==
    /\ Ids(state') \subseteq Ids(state)
    /\ state'.obstacleIdCounter = (IF lastCall' = "reset" THEN 0
                                   ELSE state.obstacleIdCounter)

\* no tap creates an obstacle, whether it hits or not
TapCreatesNothing ==
    \A t \in TriedTimes(state) :
        LET r == TapCall(state, config, <<t>>)
        IN  /\ Ids(r.state) = Ids(state)
            /\ Len(r.state.obstacles) = Len(state.obstacles)
            /\ r.state.obstacleIdCounter = state.obstacleIdCounter
            /\ r.state.nextObstacleTime = state.nextObstacleTime

OneSpawnPerUpdate ==
    /\ [](TapCreatesNothing)
    /\ [][ /\ (lastCall' = "update" /\ Unfrozen) => SpawnStep
           /\ lastCall' \in {"tap", "reset"} => NoSpawnStep ]_vars

\* an update that created nothing, and left the next obstacle for later
UpdateWithoutSpawn ==
    /\ lastCall = "update"
    /\ state.phase = "running"
    /\ state.tick > 0
    /\ state.time < state.nextObstacleTime - getCurrentApproachTime(state, config)
    /\ state.obstacleIdCounter = 1

\* an update that created an obstacle ahead of the clock, at its approach time
UpdateWithSpawn ==
    /\ lastCall = "update"
    /\ state.obstacleIdCounter = 2
    /\ LET new == state.obstacles[Len(state.obstacles)]
       IN  /\ new.id = 1
           /\ new.spawnTime = state.time
           /\ new.hitTime > state.time

\* C29: the programs around the engine (the batch simulation, the page glue
\* and the renderer) add no field to the engine's obstacle records: every
\* obstacle record has exactly the fields _spawnObstacle gave it
ObstacleFields == DOMAIN NewObstacle(ResetState(DEFAULT_CONFIG), DEFAULT_CONFIG)

ObstaclesAsCreated ==
    /\ \A i \in DOMAIN state.obstacles :
          DOMAIN state.obstacles[i] = ObstacleFields
    /\ \A i \in DOMAIN twin.state.obstacles :
          DOMAIN twin.state.obstacles[i] = ObstacleFields

-----------------------------------------------------------------------------
(* start(): the first obstacle *)

\* what start() leaves behind when called in phase ready, the grace flag aside
FirstObstacle(s, t) ==
    /\ t.phase = "running"
    /\ t.time = s.time
    /\ Len(t.obstacles) = 1
    /\ t.obstacles[1].id = 0
    /\ t.obstacles[1].hitTime = 1000
    /\ t.obstacles[1].spawnTime = 0
    /\ ~Terminal(t.obstacles[1])
    /\ t.nextObstacleTime > 1000

StartStepProtected ==
    lastCall' = "start" =>
        IF state.phase = "ready"
        THEN FirstObstacle(state, state') /\ state'.obstacles[1].graceProtected
        ELSE state' = state

StartStep ==
    lastCall' = "start" =>
        IF state.phase = "ready"
        THEN /\ FirstObstacle(state, state')
             /\ state'.obstacles[1].graceProtected <=> config.graceObstacles > 0
        ELSE state' = state

SecondStartIgnored ==
    /\ lastCall = "start"
    /\ state.phase = "running"
    /\ state.tick > 0
    /\ Len(state.obstacles) = 2

-----------------------------------------------------------------------------
(* The schedule: nextObstacleTime and the order of the collection *)

\* the obstacle a spawn has just appended
Newest(s) == s.obstacles[Len(s.obstacles)]

\* tempo * (1 - tempoVariation) and tempo * (1 + tempoVariation), in whole ms
IntervalLow(c, tempo) == (tempo * (Unit - c.tempoVariation)) \div Unit

IntervalHigh(c, tempo) == (tempo * (Unit + c.tempoVariation)) \div Unit

\* a step that spawned: the next hit time is one jittered tempo after the
\* hit time of the obstacle spawned, the tempo being that of the momentum at
\* the spawn (no later part of the call changes momentum)
ScheduleStep ==
    state'.obstaclesSpawned # state.obstaclesSpawned /\ lastCall' # "reset" =>
        LET tempo == getCurrentTempo(state', config)
            interval == state'.nextObstacleTime - Newest(state').hitTime
        IN  /\ state'.obstaclesSpawned = state.obstaclesSpawned + 1
            /\ Newest(state').id = state.obstacleIdCounter
            /\ interval >= IntervalLow(config, tempo)
            /\ interval <= IntervalHigh(config, tempo)

OrderedByIdAndHitTime ==
    /\ \A i \in DOMAIN state.obstacles : \A j \in DOMAIN state.obstacles :
          i < j => /\ state.obstacles[i].id < state.obstacles[j].id
                   /\ state.obstacles[i].hitTime < state.obstacles[j].hitTime
    /\ \A i \in DOMAIN state.obstacles :
          state.obstacles[i].hitTime < state.nextObstacleTime

\* C32: each spawn sets nextObstacleTime to the spawned obstacle's hitTime
\* plus an interval within tempo * (1 -/+ tempoVariation), tempo taken at the
\* momentum of the spawn; hit times increase strictly with the id and the
\* collection is ordered by id and by hitTime
ScheduledByTempo == [](OrderedByIdAndHitTime) /\ [][ScheduleStep]_vars

\* after misses changed the momentum, a spawn drew the shortest interval and
\* the one before it a longer one
JitteredSchedule ==
    /\ lastCall = "update"
    /\ state.stats.miss > 0
    /\ Len(state.obstacles) >= 2
    /\ Newest(state).spawnTime = state.time
    /\ state.nextObstacleTime - Newest(state).hitTime
          = IntervalLow(config, getCurrentTempo(state, config))
    /\ state.obstacles[Len(state.obstacles)].hitTime
          - state.obstacles[Len(state.obstacles) - 1].hitTime
          > IntervalLow(config, config.baseTempo)

-----------------------------------------------------------------------------
(* The purge of update(): which obstacles leave the collection *)

\* ids in the collection before the step and not after it
Removed == Ids(state) \ Ids(state')

PurgeStep ==
    (lastCall' = "update" /\ Unfrozen) =>
        /\ \A i \in DOMAIN state'.obstacles :
              Terminal(state'.obstacles[i])
                 => state'.time - state'.obstacles[i].hitTime < 800
        /\ \A id \in Ids(state) :
              LET o == ObstacleWithId(state, id)
              IN  /\ state'.time - o.hitTime < 800 => id \notin Removed
                  /\ id \in Removed
                        => Terminal(o) \/ id \in MissedIds(emitted')

KeepStep ==
    (lastCall' \in {"tap", "start"} \/ (lastCall' = "update" /\ ~Unfrozen))
        => Removed = {}

\* C33: after an update entered in phase running with hitstopRemaining = 0
\* the collection holds no terminal obstacle with time - hitTime >= 800, every
\* obstacle with time - hitTime < 800 that was in it is still in it, and an
\* obstacle that left was terminal (before the call, or missed by it); tap,
\* start and frozen updates remove nothing
PurgeOfTerminals == [][PurgeStep /\ KeepStep]_vars

\* an update purged obstacle 0 and kept a later terminal obstacle
PurgedOneKeptOne ==
    /\ lastCall = "update"
    /\ 0 \notin Ids(state)
    /\ \E i \in DOMAIN state.obstacles :
          /\ state.obstacles[i].hit
          /\ state.time - state.obstacles[i].hitTime < 800
    /\ \E i \in DOMAIN state.obstacles : ~Terminal(state.obstacles[i])

TerminalSeenStep ==
    /\ lastCall' = "update" =>
          \A id \in MissedIds(emitted') :
              id \in Ids(state') /\ ObstacleWithId(state', id).missed
    /\ (lastCall' = "tap" /\ ret' # << >>) =>
          /\ ret'[1].obstacle \in Ids(state')
          /\ ObstacleWithId(state', ret'[1].obstacle).hit

\* C34: an obstacle that becomes terminal (hit by a tap, missed by an update)
\* is in the collection, with its flag set, when that call returns: no
\* obstacle is marked missed and purged within the same update call
TerminalSeenOnce == [][TerminalSeenStep]_vars

-----------------------------------------------------------------------------
\* C35: a miss never raises momentum: after an update that missed obstacles,
\* grace-protected or not, momentum is at most the momentum the first miss
\* found (the momentum at entry, decayed over dt)
MissNeverRaisesMomentum == [][MissStep => state'.momentum <= MomentumAtMiss]_vars

-----------------------------------------------------------------------------
(* Classification with an early bias *)

\* the quality of a tap if earlyBias widened the perfect window only
PerfectBiasQuality(s, c, diff) ==
    LET scale == getDifficultyScale(s, c)
        bias == IF diff < 0 THEN c.earlyBias ELSE 0
    IN  IF Abs(diff) <= Window(c.perfectWindow, scale, bias) THEN "perfect"
        ELSE IF Abs(diff) <= Window(c.greatWindow, scale, 0) THEN "great"
        ELSE IF Abs(diff) <= Window(c.goodWindow, scale, 0) THEN "good"
        ELSE "null"

\* tap offsets on both sides of every window edge, with and without the bias
BiasDiffs ==
    {-171, -170, -151, -150, -121, -120, -101, -100, -71, -70, -51, -50,
     0, 50, 51, 70, 71, 80}

\* C36: with a non-zero earlyBias an early tap has only its perfect window
\* widened by earlyBias; the thresholds of great and good stay
\* greatWindow*scale and goodWindow*scale, and a late tap is classified with
\* no bias on any window
OnlyPerfectBiased ==
    state.phase = "running" =>
        \A i \in DOMAIN state.obstacles : \A d \in BiasDiffs :
            LET t == state.obstacles[i].hitTime + d
                r == TapCall(state, config, <<t>>)
                q == PerfectBiasQuality(state, config, d)
            IN  Nearest(state, i, t) =>
                   IF q = "null" THEN r.ret = << >>
                   ELSE r.ret # << >> /\ r.ret[1].quality = q

-----------------------------------------------------------------------------
(* The order of the events of one call.  _emit('hit') is the last statement *)
(* of tap() before its return, so the state a hit step ends in is the state *)
(* the hit handlers are run in.                                            *)

EventsNamed(ev, name) == {i \in DOMAIN ev : ev[i].name = name}

\* comboMilestone (if any), then lifeGain (if any), then the one hit event
HitEventOrder(ev) ==
    /\ ev # << >>
    /\ EventsNamed(ev, "hit") = {Len(ev)}
    /\ Cardinality(EventsNamed(ev, "comboMilestone")) <= 1
    /\ Cardinality(EventsNamed(ev, "lifeGain")) <= 1
    /\ \A i \in DOMAIN ev : ev[i].name \in {"comboMilestone", "lifeGain", "hit"}
    /\ \A i \in EventsNamed(ev, "comboMilestone") :
          \A j \in EventsNamed(ev, "lifeGain") : i < j

\* the changes of the hit, as the state holds them when the hit event is out
HitApplied(s, t, ev) ==
    LET result == ev[Len(ev)].data
        q == result.quality
    IN  /\ result.obstacle \in Ids(s) /\ result.obstacle \in Ids(t)
        /\ ~ObstacleWithId(s, result.obstacle).hit
        /\ ObstacleWithId(t, result.obstacle).hit
        /\ ObstacleWithId(t, result.obstacle).quality = q
        /\ t.lastHit = <<result>>
        /\ t.score = s.score + HitScore(config, q, s.multiplier)
        /\ t.multiplier
              = ClampMultiplier(config, s.multiplier + config.multiplierGain[q])
        /\ t.combo = IF q \in {"perfect", "great"} THEN s.combo + 1 ELSE 0
        /\ t.hitstopRemaining
              = IF config.hitstop[q] > 0 THEN config.hitstop[q]
                ELSE s.hitstopRemaining
        /\ \A i \in EventsNamed(ev, "comboMilestone") :
              ev[i].data.combo = t.combo
        /\ \A i \in EventsNamed(ev, "lifeGain") :
              ev[i].data.lives = t.lives /\ t.lives = s.lives + 1
        /\ EventsNamed(ev, "lifeGain") = {} => t.lives = s.lives

\* beat first; misses in ascending id order; a death right after the full
\* miss that caused it
UpdateEventOrder(ev) ==
    /\ \A i \in EventsNamed(ev, "beat") : i = 1
    /\ \A i \in DOMAIN ev : ev[i].name \in {"beat", "miss", "death"}
    /\ \A i \in MissEvents(ev) : \A j \in MissEvents(ev) :
          i < j => ev[i].data.obstacle < ev[j].data.obstacle
    /\ \A k \in EventsNamed(ev, "death") :
          /\ k > 1
          /\ ev[k - 1].name = "miss"
          /\ ~ev[k - 1].data.graceProtected

EventOrderStep ==
    /\ lastCall' = "tap" =>
          IF ret' = << >> THEN emitted' = << >>
          ELSE HitEventOrder(emitted') /\ HitApplied(state, state', emitted')
    /\ lastCall' = "update" => UpdateEventOrder(emitted')
    /\ lastCall' \in {"start", "reset"} => emitted' = << >>

\* C37: in a tap that hits, comboMilestone (if any) precedes lifeGain (if
\* any), which precedes the single hit event, emitted when every state change
\* of the hit is applied; in an update the miss event of an obstacle precedes
\* the death event it causes and misses are emitted in ascending id order
EventsInOrder == [][EventOrderStep]_vars

\* a hit that emitted comboMilestone, lifeGain and hit
ThreeEventsOfAHit ==
    /\ lastCall = "tap" /\ Returned
    /\ Len(emitted) = 3
    /\ emitted[1].name = "comboMilestone"
    /\ emitted[2].name = "lifeGain"
    /\ emitted[3].name = "hit"
    /\ state.lives = emitted[2].data.lives

\* an update that missed two obstacles, the first miss causing the death
TwoMissesAndDeath ==
    /\ lastCall = "update"
    /\ Cardinality(MissEvents(emitted)) = 2
    /\ \E k \in DOMAIN emitted :
          /\ k + 2 \in DOMAIN emitted
          /\ emitted[k].name = "miss"
          /\ emitted[k + 1].name = "death"
          /\ emitted[k + 2].name = "miss"

-----------------------------------------------------------------------------
(* Statistics and the hit log *)

StatsAddUp ==
    /\ Len(state.hitLog) = state.stats.hitCount + state.stats.miss
    /\ state.stats.hitCount
          = state.stats.perfect + state.stats.great + state.stats.good
    /\ state.stats.ok = 0
    /\ Cardinality({i \in DOMAIN state.hitLog : state.hitLog[i].quality = "miss"})
          = state.stats.miss

\* a step other than reset: the counters grow by the events of the call and
\* the log by one entry per hit and per miss, its old entries untouched
LogStep ==
    lastCall' # "reset" =>
        LET hits == CountEvents(emitted', "hit")
            misses == CountEvents(emitted', "miss")
        IN  /\ state'.stats.hitCount = state.stats.hitCount + hits
            /\ state'.stats.miss = state.stats.miss + misses
            /\ Len(state'.hitLog) = Len(state.hitLog) + hits + misses
            /\ SubSeq(state'.hitLog, 1, Len(state.hitLog)) = state.hitLog
            /\ \A i \in DOMAIN state'.hitLog :
                  i > Len(state.hitLog) =>
                     (state'.hitLog[i].quality = "miss") <=> (lastCall' = "update")

\* C38: hitLog.length = hitCount + miss, hitCount = perfect + great + good,
\* stats.ok = 0; hitCount and miss grow by exactly the hit and miss events
\* emitted (from 0 at reset); each hit and each miss appends one hitLog entry
\* and no entry is modified or removed by start, update or tap
StatsMatchLog == [](StatsAddUp) /\ [][LogStep]_vars

\* a miss logged by an update after a hit was logged by a tap
MissLoggedAfterHit ==
    /\ lastCall = "update"
    /\ CountEvents(emitted, "miss") > 0
    /\ state.stats.hitCount > 0
    /\ Len(state.hitLog) >= 2
    /\ state.hitLog[1].quality # "miss"
    /\ state.hitLog[Len(state.hitLog)].quality = "miss"

-----------------------------------------------------------------------------
-----------------------------------------------------------------------------
(* A run that is never tapped *)

\* the first graceObstacles misses cost no life, each later one costs one,
\* and the run is dead from the (graceObstacles + startingLives)-th miss on
LivesByMisses ==
    LET past == state.stats.miss - config.graceObstacles
    IN  /\ state.lives = config.startingLives - (IF past > 0 THEN past ELSE 0)
        /\ state.phase = "dead"
              <=> state.stats.miss = config.graceObstacles + config.startingLives
        /\ state.stats.miss <= config.graceObstacles + config.startingLives
        /\ state.stats.hitCount = 0

\* C40: if after start() the driver keeps calling update with a positive
\* frame-sized dt and never calls tap, the run reaches phase dead, exactly at
\* the (graceObstacles + startingLives)-th miss: the first graceObstacles
\* misses leave lives at startingLives and each later miss costs one life
IdleRunDies ==
    /\ [](LivesByMisses)
    /\ (state.phase = "running") ~> (state.phase = "dead")

\* the default engine dead at its 11th miss, after 6 grace misses
DeadAtEleventhMiss ==
    /\ DefaultEngine
    /\ lastCall = "update"
    /\ state.phase = "dead"
    /\ CountEvents(emitted, "death") = 1
    /\ state.stats.miss = 11
    /\ Cardinality({i \in DOMAIN state.hitLog : state.hitLog[i].momentum = 100000}) >= 6

====
